---------------------------- MODULE Spec2Model ----------------------------
(***************************************************************************)
(* A model of hellices/openapi-multi-swagger: the Swagger UI server        *)
(* (package swagger, type Server) and the ConfigMap watcher that feeds it. *)
(*                                                                         *)
(* Strings the program computes with (URLs, paths, version markers) are    *)
(* sequences of one-character strings, so that prefix tests, splitting,    *)
(* escaping and concatenation are computed as the code computes them.      *)
(* Names that are only compared for equality (API names, record fields)    *)
(* are plain TLA+ strings.                                                 *)
(***************************************************************************)
EXTENDS Naturals, Sequences, FiniteSets, TLC

(***************************************************************************)
(* Bounds of the model                                                     *)
(***************************************************************************)
\* longest pathComponent handed to makeServerURL in SpecResolve
MaxPathLen == 4

\* longest servers array of a fetched document in SpecRewrite
MaxServers == 2

\* longest list of candidates handed to UpdateSpecs in Spec
MaxBatch == 2

(***************************************************************************)
(* Strings                                                                 *)
(***************************************************************************)
\* the characters pathComponents are drawn from: a letter, the path
\* separator, the dot of dot-segments, the scheme delimiter, and a character
\* that path escaping encodes (the brace of OpenAPI server variables)
Alphabet == {"a", "/", ".", ":", "{"}

Letters == {"a", "b", "c", "h", "p", "s", "t", "u", "q"}

Digits == {"0", "1", "2", "3", "4", "5", "6", "7", "8", "9"}

\* all strings over a set of characters of length at most n
StringsUpTo(chars, n) == UNION {[1..k -> chars] : k \in 0..n}

\* strings.HasPrefix
HasPrefix(s, p) == Len(s) >= Len(p) /\ SubSeq(s, 1, Len(p)) = p

\* strings.IndexByte, 1-based; 0 when c does not occur
IndexOf(s, c) ==
  IF \E i \in 1..Len(s) : s[i] = c
  THEN CHOOSE i \in 1..Len(s) : s[i] = c /\ \A j \in 1..(i - 1) : s[j] # c
  ELSE 0

\* strings.LastIndexByte, 1-based; 0 when c does not occur
LastIndexOf(s, c) ==
  IF \E i \in 1..Len(s) : s[i] = c
  THEN CHOOSE i \in 1..Len(s) : s[i] = c /\ \A j \in (i + 1)..Len(s) : s[j] # c
  ELSE 0

\* s[i:] of Go, for a 1-based i
From(s, i) == SubSeq(s, i, Len(s))

\* the successive elem values of the strings.Cut(remaining, "/") loop
RECURSIVE SplitSlash(_)
SplitSlash(s) ==
  LET i == IndexOf(s, "/")
  IN IF i = 0 THEN <<s>>
     ELSE <<SubSeq(s, 1, i - 1)>> \o SplitSlash(From(s, i + 1))

(***************************************************************************)
(* net/url, as far as makeServerURL uses it                                *)
(***************************************************************************)
\* url.getScheme: [err, scheme, rest]
RECURSIVE getSchemeFrom(_, _)
getSchemeFrom(rawURL, i) ==
  IF i > Len(rawURL) THEN [err |-> FALSE, scheme |-> <<>>, rest |-> rawURL]
  ELSE LET c == rawURL[i]
       IN IF c \in Letters THEN getSchemeFrom(rawURL, i + 1)
          ELSE IF c \in Digits \cup {"+", "-", "."}
          THEN IF i = 1
               THEN [err |-> FALSE, scheme |-> <<>>, rest |-> rawURL]
               ELSE getSchemeFrom(rawURL, i + 1)
          ELSE IF c = ":"
          THEN IF i = 1
               THEN [err |-> TRUE, scheme |-> <<>>, rest |-> <<>>]
               ELSE [err |-> FALSE, scheme |-> SubSeq(rawURL, 1, i - 1),
                     rest |-> From(rawURL, i + 1)]
          ELSE [err |-> FALSE, scheme |-> <<>>, rest |-> rawURL]

getScheme(rawURL) == getSchemeFrom(rawURL, 1)

\* url.validOptionalPort
validOptionalPort(port) ==
  \/ port = <<>>
  \/ port[1] = ":" /\ \A i \in 2..Len(port) : port[i] \in Digits

\* url.parseHost: TRUE when the host is accepted. A character that
\* shouldEscape reports for a host (here the brace) is an InvalidHostError.
hostOK(host) ==
  /\ LET i == LastIndexOf(host, ":")
     IN i = 0 \/ validOptionalPort(From(host, i))
  /\ \A i \in 1..Len(host) : host[i] # "{"

\* url.Parse, reduced to what makeServerURL reads: whether it failed and the
\* scheme. None of the characters of Alphabet starts a fragment, a query, an
\* escape or a userinfo part, so those branches of url.parse do not occur.
urlParse(rawURL) ==
  LET g == getScheme(rawURL)
      rest == g.rest
      firstSeg == Head(SplitSlash(rest))
      authority == Head(SplitSlash(From(rest, 3)))
  IN IF g.err THEN [err |-> TRUE, scheme |-> <<>>]
     ELSE IF ~HasPrefix(rest, <<"/">>) /\ g.scheme # <<>>
     THEN [err |-> FALSE, scheme |-> g.scheme]            \* opaque URL
     ELSE IF ~HasPrefix(rest, <<"/">>) /\ IndexOf(firstSeg, ":") # 0
     THEN [err |-> TRUE, scheme |-> <<>>]   \* colon in first path segment
     ELSE IF /\ (g.scheme # <<>> \/ ~HasPrefix(rest, <<"/", "/", "/">>))
             /\ HasPrefix(rest, <<"/", "/">>)
             /\ ~hostOK(authority)
     THEN [err |-> TRUE, scheme |-> <<>>]
     ELSE [err |-> FALSE, scheme |-> g.scheme]

\* (*URL).IsAbs
IsAbs(u) == u.scheme # <<>>

\* url.escape(s, encodePath) on the characters of the model: only the brace
\* is percent-encoded
RECURSIVE escapePath(_)
escapePath(s) ==
  IF s = <<>> THEN <<>>
  ELSE (IF Head(s) = "{" THEN <<"%", "7", "B">> ELSE <<Head(s)>>)
       \o escapePath(Tail(s))

\* the element loop of url.resolvePath: dst after all elements
RECURSIVE resolveLoop(_, _, _)
resolveLoop(elems, dst, first) ==
  IF elems = <<>> THEN dst
  ELSE LET elem == Head(elems)
           str == Tail(dst)
           index == LastIndexOf(str, "/")
       IN IF elem = <<".">> THEN resolveLoop(Tail(elems), dst, FALSE)
          ELSE IF elem = <<".", ".">>
          THEN IF index = 0
               THEN resolveLoop(Tail(elems), <<"/">>, TRUE)
               ELSE resolveLoop(Tail(elems),
                                <<"/">> \o SubSeq(str, 1, index - 1), first)
          ELSE resolveLoop(Tail(elems),
                           (IF first THEN dst ELSE dst \o <<"/">>) \o elem,
                           FALSE)

\* url.resolvePath(base, ref)
resolvePath(basePath, ref) ==
  LET full == IF ref = <<>> THEN basePath
              ELSE IF ref[1] # "/"
              THEN SubSeq(basePath, 1, LastIndexOf(basePath, "/")) \o ref
              ELSE ref
      elems == SplitSlash(full)
      last == elems[Len(elems)]
      dst == resolveLoop(elems, <<"/">>, TRUE)
      r == IF last = <<".">> \/ last = <<".", ".">>
           THEN dst \o <<"/">> ELSE dst
  IN IF full = <<>> THEN <<>>
     ELSE IF Len(r) > 1 /\ r[2] = "/" THEN Tail(r) ELSE r

\* a parsed URL: the fields of url.URL the program reads or prints
\* (User is <<>> for a nil Userinfo)
URLRec(scheme, user, host, path, query) ==
  [Scheme |-> scheme, User |-> user, Host |-> host, Path |-> path,
   RawQuery |-> query]

\* (*URL).ResolveReference(&url.URL{Path: refPath})
ResolveReference(u, refPath) ==
  [Scheme |-> u.Scheme, User |-> u.User, Host |-> u.Host,
   Path |-> resolvePath(escapePath(u.Path), escapePath(refPath)),
   RawQuery |-> IF refPath = <<>> THEN u.RawQuery ELSE <<>>]

\* (*URL).String of a URL with a scheme; Path holds the escaped path
URLString(u) ==
  u.Scheme \o <<":">>
  \o (IF u.Host # <<>> \/ u.Path # <<>> \/ u.User # <<>>
      THEN <<"/", "/">> ELSE <<>>)
  \o (IF u.User # <<>> THEN u.User \o <<"@">> ELSE <<>>)
  \o u.Host
  \o (IF u.Path # <<>> /\ u.Path[1] # "/" /\ u.Host # <<>>
      THEN <<"/">> ELSE <<>>)
  \o u.Path
  \o (IF u.RawQuery # <<>> THEN <<"?">> \o u.RawQuery ELSE <<>>)

\* fmt.Sprintf("%s://%s", metadataURL.Scheme, metadataURL.Host)
SchemeHost(u) == u.Scheme \o <<":", "/", "/">> \o u.Host


(***************************************************************************)
(* Server.makeServerURL                                                    *)
(***************************************************************************)
\* base := *metadataURL with "/" appended to its path when the path does not
\* end with one and pathComponent is relative
slashedBase(metadataURL, pathComponent) ==
  IF /\ (metadataURL.Path = <<>>
         \/ metadataURL.Path[Len(metadataURL.Path)] # "/")
     /\ pathComponent # <<>>
     /\ (Len(pathComponent) = 0 \/ pathComponent[1] # "/")
  THEN [metadataURL EXCEPT !.Path = @ \o <<"/">>]
  ELSE metadataURL

\* makeServerURL without the early return for an empty pathComponent
makeServerURL_NoEmptyCase(metadataURL, pathComponent) ==
  LET parsedPathComponent == urlParse(pathComponent)
      base == slashedBase(metadataURL, pathComponent)
  IN IF ~parsedPathComponent.err /\ IsAbs(parsedPathComponent)
     THEN pathComponent
     ELSE IF HasPrefix(pathComponent, <<"/">>)
     THEN SchemeHost(metadataURL) \o pathComponent
     ELSE URLString(ResolveReference(base, pathComponent))

\* makeServerURL without the early return for an absolute pathComponent
makeServerURL_NoAbsCase(metadataURL, pathComponent) ==
  LET base == slashedBase(metadataURL, pathComponent)
  IN IF pathComponent = <<>> THEN SchemeHost(metadataURL)
     ELSE IF HasPrefix(pathComponent, <<"/">>)
     THEN SchemeHost(metadataURL) \o pathComponent
     ELSE URLString(ResolveReference(base, pathComponent))

makeServerURL(metadataURL, pathComponent) ==
  LET parsedPathComponent == urlParse(pathComponent)
      base == slashedBase(metadataURL, pathComponent)
  IN IF pathComponent = <<>> THEN SchemeHost(metadataURL)
     ELSE IF ~parsedPathComponent.err /\ IsAbs(parsedPathComponent)
     THEN pathComponent
     ELSE IF HasPrefix(pathComponent, <<"/">>)
     THEN SchemeHost(metadataURL) \o pathComponent
     ELSE URLString(ResolveReference(base, pathComponent))

(***************************************************************************)
(* Decoded JSON (map[string]interface{}), as far as the rewrite reads it   *)
(*                                                                         *)
(* A value is [k, s, a]: k is "absent" (no such key), "string" (s holds    *)
(* the characters), "array" (a holds the elements) or "other" (a number,   *)
(* a bool, null or an object: every type assertion the code makes fails).  *)
(* An array element is [k, url, description]: k is "object" or "other",    *)
(* url and description are the values of those keys of the object.         *)
(***************************************************************************)
AbsentValue == [k |-> "absent", s |-> <<>>, a |-> <<>>]

OtherValue == [k |-> "other", s |-> <<>>, a |-> <<>>]

StringValue(str) == [k |-> "string", s |-> str, a |-> <<>>]

ArrayValue(elems) == [k |-> "array", s |-> <<>>, a |-> elems]

\* map[string]interface{}{"url": str}
ServerObject(str) ==
  [k |-> "object", url |-> StringValue(str), description |-> AbsentValue]

\* v, _ := x.(string)
AsString(v) == IF v.k = "string" THEN v.s ELSE <<>>

\* v, _ := x.([]interface{})
AsArray(v) == IF v.k = "array" THEN v.a ELSE <<>>

(***************************************************************************)
(* Server.updateSpecServerInfo                                             *)
(***************************************************************************)
\* a dialect test that looks at the swagger marker first
specDialect_SwaggerFirst(spec) ==
  LET openAPIVersion == AsString(spec.openapi)
      swaggerVersion == AsString(spec.swagger)
  IN IF swaggerVersion = <<"2", ".", "0">> THEN "swagger2"
     ELSE IF openAPIVersion # <<>> /\ HasPrefix(openAPIVersion, <<"3", ".">>)
     THEN "openapi3"
     ELSE "legacy"

\* the branch updateSpecServerInfo takes
specDialect(spec) ==
  LET openAPIVersion == AsString(spec.openapi)
      swaggerVersion == AsString(spec.swagger)
  IN IF openAPIVersion # <<>> /\ HasPrefix(openAPIVersion, <<"3", ".">>)
     THEN "openapi3"
     ELSE IF swaggerVersion = <<"2", ".", "0">> THEN "swagger2"
     ELSE "legacy"

\* the first server taken from the existing array, if it yields a URL
firstServer(existingServers, metadataURL) ==
  IF /\ Len(existingServers) > 0
     /\ existingServers[1].k = "object"
     /\ existingServers[1].url.k = "string"
  THEN <<ServerObject(makeServerURL(metadataURL, existingServers[1].url.s))>>
  ELSE <<>>

\* the OpenAPI branch with the rewritten server put in place of the first
\* existing one
rewriteServers_ReplaceFirst(spec, metadataURL) ==
  LET existingServers == AsArray(spec.servers)
      first == firstServer(existingServers, metadataURL)
      newServers == IF Len(first) = 0
                    THEN <<ServerObject(makeServerURL(metadataURL, <<>>))>>
                    ELSE first
  IN [spec EXCEPT !.servers =
        ArrayValue(newServers \o
                   (IF existingServers = <<>> THEN <<>>
                    ELSE Tail(existingServers)))]

\* the OpenAPI branch without the fallback entry
rewriteServers_NoFallback(spec, metadataURL) ==
  LET existingServers == AsArray(spec.servers)
      first == firstServer(existingServers, metadataURL)
  IN [spec EXCEPT !.servers = ArrayValue(first \o existingServers)]

\* OpenAPI 3.x: the servers array
rewriteServers(spec, metadataURL) ==
  LET existingServers == AsArray(spec.servers)
      first == firstServer(existingServers, metadataURL)
      newServers == IF Len(first) = 0
                    THEN <<ServerObject(makeServerURL(metadataURL, <<>>))>>
                    ELSE first
  IN [spec EXCEPT !.servers = ArrayValue(newServers \o existingServers)]

\* the Swagger 2.0 branch writing scheme://host into host
rewriteHost_WithScheme(spec, metadataURL) ==
  [spec EXCEPT !.host = StringValue(SchemeHost(metadataURL))]

\* Swagger 2.0: the host field
rewriteHost(spec, metadataURL) ==
  [spec EXCEPT !.host = StringValue(metadataURL.Host)]

\* the legacy branch setting basePath whether or not the document has one
rewriteBasePath_Always(spec, metadataURL) ==
  [spec EXCEPT !.basePath =
     StringValue(makeServerURL(metadataURL, AsString(spec.basePath)))]

\* Swagger 1.2 or undefined: the basePath field
rewriteBasePath(spec, metadataURL) ==
  IF spec.basePath.k = "string"
  THEN [spec EXCEPT !.basePath =
          StringValue(makeServerURL(metadataURL, spec.basePath.s))]
  ELSE spec

updateSpecServerInfo(spec, metadataURL) ==
  CASE specDialect(spec) = "openapi3" -> rewriteServers(spec, metadataURL)
    [] specDialect(spec) = "swagger2" -> rewriteHost(spec, metadataURL)
    [] OTHER -> rewriteBasePath(spec, metadataURL)

(***************************************************************************)
(* APIMetadata and Server.UpdateSpecs                                      *)
(***************************************************************************)
\* an APIMetadata value
APIMetadata(name, url, title, version, description, resourceType, resourceName, namespace, lastUpdated, allowedMethods, error) ==
  [Name |-> name, URL |-> url, Title |-> title, Version |-> version,
   Description |-> description, ResourceType |-> resourceType,
   ResourceName |-> resourceName, Namespace |-> namespace,
   LastUpdated |-> lastUpdated, AllowedMethods |-> allowedMethods,
   Error |-> error]

\* the zero value of APIMetadata, which a failed map lookup returns
ZeroMetadata ==
  APIMetadata("", "", "", "", <<>>, "", "", "", "", <<>>, "")

\* the metadata value UpdateSpecs builds from a candidate
storedMetadata(api) ==
  APIMetadata(api.Name, api.URL, api.Name, "",
              <<"API from ", api.Namespace, "/", api.ResourceName>>,
              api.ResourceType, api.ResourceName, api.Namespace,
              api.LastUpdated, api.AllowedMethods, "")

\* m[key] = value on a Go map
MapPut(m, key, value) ==
  [n \in DOMAIN m \cup {key} |-> IF n = key THEN value ELSE m[n]]

\* the map with no key
EmptyMap == <<>>

\* newSpecs started from the live map instead of an empty one
freshSpecs_Reuse(current) == current

\* newSpecs := make(map[string]APIMetadata)
freshSpecs(current) == EmptyMap

\* the loop body without the test of api.Error
afterCandidate_KeepErrors(newSpecs, api) ==
  MapPut(newSpecs, api.Name, storedMetadata(api))

\* one iteration of the loop over apis: newSpecs after the candidate
afterCandidate(newSpecs, api) ==
  IF api.Error # "" THEN newSpecs
  ELSE MapPut(newSpecs, api.Name, storedMetadata(api))

\* For the history variable lastReturned, the mapping a batch stands for:
\* the names of its error-free candidates, each with the record built from
\* its last error-free occurrence
ErrorFreeNames(batch) ==
  {batch[i].Name : i \in {j \in 1..Len(batch) : batch[j].Error = ""}}

LastErrorFree(batch, name) ==
  CHOOSE i \in 1..Len(batch) :
    /\ batch[i].Name = name /\ batch[i].Error = ""
    /\ \A j \in (i + 1)..Len(batch) :
         ~(batch[j].Name = name /\ batch[j].Error = "")

MappingOf(batch) ==
  [n \in ErrorFreeNames(batch) |->
     storedMetadata(batch[LastErrorFree(batch, n)])]

(***************************************************************************)
(* sync.RWMutex: writer is the goroutine that owns the writer side (it has *)
(* announced itself and waits for the readers, or holds the lock), held    *)
(* tells which of the two, readers are the goroutines holding a read lock  *)
(***************************************************************************)
\* RLock that does not wait for a writer
canRLock_IgnoreWriter(mux) == TRUE

\* RLock returns only while no writer owns or waits for the lock
canRLock(mux) == mux.writer = "none"

\* Lock gets past the writers' mutex only when no other writer has it
canLock(mux) == mux.writer = "none"

\* Lock returns once the active readers have left
lockGranted(mux) == mux.readers = {}

\* a handler that defers the RUnlock to its return, as serveSpecs does
readersAfterLookup_Deferred(readers, r) == readers

\* s.specsMux.RUnlock() right after the map lookup
readersAfterLookup(readers, r) == readers \ {r}

\* urlStr := metadata.URL, of the local copy
fetchURL(copied) == copied.URL

\* a handler that reads s.specs[apiName] again for the base
rewriteBase_Reread(copied, registry, name) ==
  IF name \in DOMAIN registry THEN registry[name].URL ELSE ""

\* url.Parse(metadata.URL), of the local copy
rewriteBase(copied, registry, name) == copied.URL

(***************************************************************************)
(* HTTP: paths, messages, header maps and the ResponseWriter               *)
(*                                                                         *)
(* A header map is a function from header names to the sequence of values  *)
(* of that name (empty: the name is absent). A message is [text, cause,    *)
(* code, arg]: a format string with the error, the status code or a string *)
(* of the request formatted into it. A response body is [kind, msg, doc,   *)
(* specs, bytes]: an error text, an encoded document, the encoded          *)
(* registry, or bytes.                                                     *)
(***************************************************************************)
\* the path constants, by their names without the httpPath prefix
httpPath ==
  [Root |-> <<"/">>,
   IndexHTML |-> <<"/", "i", "n", "d", "e", "x", ".", "h", "t", "m", "l">>,
   SwaggerSpecs |->
     <<"/", "s", "w", "a", "g", "g", "e", "r", "-", "s", "p", "e", "c", "s">>,
   API |-> <<"/", "a", "p", "i", "/">>,
   Proxy |-> <<"/", "p", "r", "o", "x", "y", "/">>]

\* the header name constants, by their names without the header prefix
header ==
  [ContentType |-> "Content-Type",
   AccessControlAllowOrigin |-> "Access-Control-Allow-Origin",
   AccessControlAllowMethods |-> "Access-Control-Allow-Methods",
   AccessControlAllowHeaders |-> "Access-Control-Allow-Headers",
   AccessControlExposeHeaders |-> "Access-Control-Expose-Headers"]

\* the content type constants, by their names without the contentType prefix
contentType ==
  [HTML |-> "text/html",
   JSON |-> "application/json",
   CSS |-> "text/css",
   JS |-> "application/javascript",
   PNG |-> "image/png",
   OctetStream |-> "application/octet-stream"]

\* the CORS value constants, by their names without the cors prefix
cors ==
  [AllowOriginAll |-> "*",
   AllowMethodsDefault |-> "GET, POST, OPTIONS",
   AllowHeadersDefault |-> "Content-Type, Authorization",
   ExposeHeadersDefault |-> "Content-Length"]

\* the error message constants, by their names without the errMsg prefix
errMsg ==
  [FailedToReadIndexHTML |-> "Failed to read index.html",
   FailedToWriteResponse |-> "Failed to write response",
   FailedToEncodeSpecs |-> "Failed to encode specs",
   APINotFound |-> "API not found",
   FailedToFetchSpec |-> "Failed to fetch spec: %v",
   FailedToFetchSpecStatus |-> "Failed to fetch spec, status: %d",
   FailedToDecodeOpenAPISpec |-> "Failed to decode OpenAPI spec: %v",
   FailedToEncodeModifiedSpec |-> "Failed to encode modified spec",
   ProxyURLRequired |-> "proxyUrl query parameter is required for all requests",
   FailedToCreateProxyReq |-> "Failed to create proxy request: %v",
   FailedToForwardProxyReq |-> "Failed to forward request: %v",
   StaticFileNotFound |-> "Static file not found"]

MethodOptions == "OPTIONS"

StatusOK == 200

StatusBadRequest == 400

StatusNotFound == 404

StatusInternalServerError == 500

\* strings.TrimPrefix
TrimPrefix(s, p) == IF HasPrefix(s, p) THEN From(s, Len(p) + 1) ELSE s

\* strings.HasSuffix
HasSuffix(s, p) ==
  Len(s) >= Len(p) /\ SubSeq(s, Len(s) - Len(p) + 1, Len(s)) = p

\* a constant message; fmt.Sprintf of a format with an error (%v); and of a
\* format with a status code (%d)
Msg(text) == [text |-> text, cause |-> "", code |-> 0, arg |-> <<>>]

SprintfErr(format, err) == [Msg(format) EXCEPT !.cause = err]

SprintfCode(format, code) == [Msg(format) EXCEPT !.code = code]

\* fmt.Sprintf of a format with a string (%s) of the request
SprintfStr(format, str) == [Msg(format) EXCEPT !.arg = str]

\* names of the headers of the model
HeaderNames ==
  {header.AccessControlAllowOrigin, header.AccessControlAllowMethods,
   header.AccessControlAllowHeaders, header.AccessControlExposeHeaders,
   header.ContentType, "Cache-Control", "X-Content-Type-Options",
   "Content-Length", "Set-Cookie", "Authorization"}

\* an http.Header without entries
EmptyHeader == [n \in HeaderNames |-> <<>>]

\* http.Header.Set
HeaderSet(h, name, value) == [h EXCEPT ![name] = <<value>>]

\* a copy that keeps only the last value of each name
HeaderAddAll_LastOnly(dst, src) ==
  [n \in HeaderNames |->
     IF src[n] = <<>> THEN dst[n] ELSE <<src[n][Len(src[n])]>>]

\* the loop "for name, values := range src { for _, value := range values
\* { dst.Add(name, value) } }" that proxyRequest runs in both directions
HeaderAddAll(dst, src) == [n \in HeaderNames |-> dst[n] \o src[n]]

\* the decoded document with no key
NoDocument ==
  [openapi |-> AbsentValue, swagger |-> AbsentValue, servers |-> AbsentValue,
   host |-> AbsentValue, basePath |-> AbsentValue, schemes |-> AbsentValue]

\* response bodies: nothing written; the text http.Error prints; a document
\* or the registry as json.Encoder writes it; bytes of a file or of an
\* upstream body
NoBody ==
  [kind |-> "none", msg |-> Msg(""), doc |-> NoDocument, specs |-> EmptyMap,
   bytes |-> <<>>]

ErrorBody(msg) == [NoBody EXCEPT !.kind = "error", !.msg = msg]

DocumentBody(doc) == [NoBody EXCEPT !.kind = "document", !.doc = doc]

SpecsBody(m) == [NoBody EXCEPT !.kind = "specs", !.specs = m]

BytesBody(bytes) == [NoBody EXCEPT !.kind = "bytes", !.bytes = bytes]

\* the ResponseWriter of a request: Header is the map handlers change,
\* Status the status line sent (0: none yet), Sent the headers that went out
\* with it, Body what was written, Log the order of the writes, and Broken
\* tells that writes of body bytes to the client fail
NewResponseWriter(broken) ==
  [Header |-> EmptyHeader, Status |-> 0, Sent |-> EmptyHeader,
   Body |-> NoBody, Log |-> <<>>, Broken |-> broken]

\* ResponseWriter.WriteHeader: the first call sends the status line and the
\* headers as they are now, later calls are ignored
WriteHeader(rw, code) ==
  IF rw.Status # 0 THEN rw
  ELSE [rw EXCEPT !.Status = code, !.Sent = rw.Header,
                  !.Log = Append(@, "status")]

\* ResponseWriter.Write: sends status 200 first if no status was sent
Write(rw, body) ==
  LET rw1 == WriteHeader(rw, StatusOK)
  IN IF rw1.Broken THEN rw1
     ELSE [rw1 EXCEPT !.Body = body, !.Log = Append(@, "body")]

\* http.Error
Error(rw, error, code) ==
  LET h1 == HeaderSet(rw.Header, header.ContentType,
                      "text/plain; charset=utf-8")
      h2 == HeaderSet(h1, "X-Content-Type-Options", "nosniff")
  IN Write(WriteHeader([rw EXCEPT !.Header = h2], code), ErrorBody(error))

\* io.Copy(w, body): no Write call for an empty body
Copy(rw, bytes) == IF bytes = <<>> THEN rw ELSE Write(rw, BytesBody(bytes))

\* Server.logAndSendError on st = [w, logged]: a line in the server log,
\* and http.Error with the user message
logAndSendError(st, req, statusCode, internalFullLogMsg, userMsg) ==
  [w |-> Error(st.w, userMsg, statusCode),
   logged |-> Append(st.logged,
                     [Method |-> req.Method, Path |-> req.Path,
                      Status |-> statusCode, Msg |-> internalFullLogMsg])]

\* Server.stripBasePath
stripBasePath(base, path) ==
  IF base # <<>> /\ HasPrefix(path, base) THEN TrimPrefix(path, base)
  ELSE path

\* the switch of ServeHTTP: the handler a stripped path is routed to
route(path) ==
  IF path = httpPath.Root \/ path = httpPath.IndexHTML THEN "serveIndex"
  ELSE IF path = httpPath.SwaggerSpecs THEN "serveSpecs"
  ELSE IF HasPrefix(path, httpPath.API) THEN "serveIndividualSpec"
  ELSE IF HasPrefix(path, httpPath.Proxy) THEN "proxyRequest"
  ELSE "serveStaticFiles"

\* the four Set calls at the top of ServeHTTP
corsHeaders(h) ==
  LET h1 == HeaderSet(h, header.AccessControlAllowOrigin, cors.AllowOriginAll)
      h2 == HeaderSet(h1, header.AccessControlAllowMethods,
                      cors.AllowMethodsDefault)
      h3 == HeaderSet(h2, header.AccessControlAllowHeaders,
                      cors.AllowHeadersDefault)
  IN HeaderSet(h3, header.AccessControlExposeHeaders, cors.ExposeHeadersDefault)

\* a ServeHTTP that routes OPTIONS requests like any other
isPreflight_Never(method) == FALSE

\* r.Method == http.MethodOptions
isPreflight(method) == method = MethodOptions

\* Server.getContentType
getContentType(path) ==
  IF HasSuffix(path, <<".", "c", "s", "s">>) THEN contentType.CSS
  ELSE IF HasSuffix(path, <<".", "j", "s">>) THEN contentType.JS
  ELSE IF HasSuffix(path, <<".", "p", "n", "g">>) THEN contentType.PNG
  ELSE IF HasSuffix(path, <<".", "h", "t", "m", "l">>) THEN contentType.HTML
  ELSE contentType.OctetStream

\* url.Values.Get: the first value of the parameter, "" when it has none
QueryGet(values) == IF values = <<>> THEN <<>> ELSE values[1]

\* the name a character sequence spells, "" when it spells none of the
\* one-character names of the model
KeyOf(name) == IF Len(name) = 1 THEN name[1] ELSE ""

\* a lookup that finds every name
mapHas_Always(m, name) == TRUE

\* the exists result of metadata, exists := s.specs[apiName]
mapHas(m, name) == KeyOf(name) \in DOMAIN m

\* the metadata result: the stored value, or the zero value
mapGet(m, name) ==
  IF KeyOf(name) \in DOMAIN m THEN m[KeyOf(name)] ELSE ZeroMetadata

\* the pattern "if err := <write>; err != nil { s.logAndSendError(...) }"
\* on st = [w, logged]: the body is written, and if the write fails the
\* error is logged and http.Error is called on the same writer
writeOrFail(st, req, body, failMsg) ==
  LET st1 == [st EXCEPT !.w = Write(st.w, body)]
  IN IF st.w.Broken
     THEN logAndSendError(st1, req, StatusInternalServerError,
                          SprintfErr(failMsg, "broken pipe"), Msg(failMsg))
     ELSE st1

\* the content of index.html with the meta tag serveIndex inserts
indexHTML(base) ==
  <<"<head>">>
  \o (IF base # <<>> THEN <<"<meta name=base-path content=">> \o base \o <<">">>
      ELSE <<>>)
  \o <<"</head>">>

\* a proxyRequest that accepts an empty target
targetMissing_Never(targetProxyURL) == FALSE

\* targetProxyURL == ""
targetMissing(targetProxyURL) == targetProxyURL = <<>>

\* an r.Body left drained after io.ReadAll
replayBody_Drained(bodyBytes) == <<>>

\* r.Body = io.NopCloser(bytes.NewBuffer(bodyBytes)): what r.Body yields
\* when it is read again
replayBody(bodyBytes) == bodyBytes

(***************************************************************************)
(* Inputs                                                                  *)
(***************************************************************************)
Http == <<"h", "t", "t", "p">>

Https == <<"h", "t", "t", "p", "s">>

\* paths of registry record URLs: none, the root, one and two segments, and
\* a directory path
BasePaths ==
  {<<>>, <<"/">>, <<"/", "b">>, <<"/", "b", "/">>, <<"/", "b", "/", "c">>}

\* url.Parse(metadata.URL) of the URLs a record can carry once http.Get has
\* accepted them: an http or https scheme and a host, with any path, and
\* with or without a port, a query and userinfo
MetadataURLs ==
  {URLRec(Http, <<>>, <<"h">>, p, <<>>) : p \in BasePaths}
  \cup {URLRec(Https, <<>>, <<"h", ":", "8", "0">>, p, <<"q">>) :
          p \in {<<>>, <<"/", "b", "/", "c">>}}
  \cup {URLRec(Http, <<"u">>, <<"h">>, <<"/", "b">>, <<>>)}

PathComponents == StringsUpTo(Alphabet, MaxPathLen)

\* server urls and basePaths of fetched documents: empty, absolute path,
\* relative, with a scheme, and one that path escaping changes
DocPaths == {<<>>, <<"/", "a">>, <<"a">>, <<"a", ":", "a">>, <<"{">>}

\* elements of a servers array: objects with a string url, an object with a
\* description, an object whose url is no string, an object without url, and
\* an element that is no object
ServerEntries ==
  {ServerObject(p) : p \in DocPaths}
  \cup {[k |-> "object", url |-> StringValue(<<"a">>),
         description |-> StringValue(<<"a">>)],
        [k |-> "object", url |-> OtherValue, description |-> AbsentValue],
        [k |-> "object", url |-> AbsentValue, description |-> AbsentValue],
        [k |-> "other", url |-> AbsentValue, description |-> AbsentValue]}

ServerArrays(n) == UNION {[1..k -> ServerEntries] : k \in 0..n}

\* values of the openapi and swagger markers
OpenAPIMarkers ==
  {AbsentValue, OtherValue, StringValue(<<>>), StringValue(<<"3", ".">>),
   StringValue(<<"3", ".", "0">>), StringValue(<<"3">>),
   StringValue(<<"2", ".", "0">>)}

SwaggerMarkers ==
  {AbsentValue, OtherValue, StringValue(<<"2", ".", "0">>),
   StringValue(<<"2", ".">>)}

\* decoded documents: every combination of markers with short servers
\* arrays, and the longer servers arrays on OpenAPI 3.x documents
Documents ==
  [openapi : OpenAPIMarkers, swagger : SwaggerMarkers,
   servers : {AbsentValue, OtherValue}
             \cup {ArrayValue(a) : a \in ServerArrays(1)},
   host : {AbsentValue, StringValue(<<"x">>)},
   basePath : {AbsentValue, OtherValue} \cup {StringValue(p) : p \in DocPaths},
   schemes : {OtherValue}]
  \cup
  [openapi : {StringValue(<<"3", ".", "0">>)},
   swagger : {AbsentValue, StringValue(<<"2", ".", "0">>)},
   servers : {ArrayValue(a) : a \in ServerArrays(MaxServers)},
   host : {AbsentValue},
   basePath : {AbsentValue, StringValue(<<"/", "a">>)},
   schemes : {OtherValue}]

\* names of registered APIs
Names == {"a", "b"}

\* candidate records as loadSpecs unmarshals them from the ConfigMap: two
\* URLs for one name, and records with and without an error
Candidates ==
  {APIMetadata(c[1], c[2], "T", "v1", <<"D">>, "Service", "rn", "ns",
               "t0", <<"GET">>, c[3]) :
     c \in {<<"a", "u1", "">>, <<"a", "u2", "">>, <<"a", "u2", "e">>,
            <<"b", "u1", "">>}}

\* the lists watchSpecsConfigMap hands to UpdateSpecs: never empty
Batches == UNION {[1..k -> Candidates] : k \in 1..MaxBatch}

\* goroutines calling UpdateSpecs: the watcher that main starts, and a second
\* caller of the exported method, so that calls can overlap
Updaters == {"u1", "u2"}

\* goroutines of net/http serving one request each
Requests == {"r1", "r2"}

\* values of SWAGGER_BASE_PATH: unset, and a one-segment prefix
ServerBasePaths == {<<>>, <<"/", "s">>}

\* what url.Parse makes of the URL strings of the candidate records
RecordURLs ==
  [u \in {"u1", "u2"} |->
     IF u = "u1" THEN URLRec(Http, <<>>, <<"h">>, <<"/", "b", "/", "c">>, <<>>)
     ELSE URLRec(Https, <<>>, <<"h", ":", "8", "0">>, <<"/", "b">>, <<"q">>)]

\* the registry contents a request can meet: the initial empty map and what
\* an UpdateSpecs call leaves
RegistrySnapshots == {EmptyMap} \cup {MappingOf(b) : b \in Batches}

\* inbound paths seen by the router once a base path is stripped: the index
\* in both spellings, the list, /api/ with a registered, an unregistered and
\* no name, a proxy path, an embedded asset and a path of no file
RoutedPaths ==
  {httpPath.Root, httpPath.IndexHTML, httpPath.SwaggerSpecs,
   httpPath.API \o <<"a">>, httpPath.API \o <<"b">>, httpPath.API \o <<"c">>,
   httpPath.API, httpPath.Proxy \o <<"x">>, <<"/", "x", ".", "c", "s", "s">>,
   <<"/", "x">>}

\* inbound paths: each routed path plain and under the prefix /s, and the
\* bare prefix
RequestPaths ==
  RoutedPaths \cup {<<"/", "s">> \o p : p \in RoutedPaths} \cup {<<"/", "s">>}

Methods == {"GET", "POST", MethodOptions}

\* request headers: none, one value, and a name with two values
RequestHeaders ==
  {EmptyHeader,
   [EmptyHeader EXCEPT !["Authorization"] = <<"t">>],
   [EmptyHeader EXCEPT !["Set-Cookie"] = <<"c1", "c2">>,
                       ![header.ContentType] = <<contentType.JSON>>]}

\* request and upstream bodies
Bodies == {<<>>, <<"x", "y">>}

\* values of the proxyUrl query parameter: absent, empty, an absolute
\* target, a target that url.Parse rejects, and two values
ProxyURLValues ==
  {<<>>, << <<>> >>, << <<"a", ":", "/", "/", "a">> >>, << <<":">> >>,
   << <<"a", ":", "/", "/", "a">>, <<"a", ":", "/", "/", "b">> >>}

\* an inbound request; Content is what the client sent, Body what reading
\* r.Body yields now, Cancelled whether r.Context() is done
Request(method, path, query, hdr, body) ==
  [Method |-> method, Path |-> path, Query |-> query, Header |-> hdr,
   Body |-> body, Content |-> body, Cancelled |-> FALSE]

\* the inbound requests: every method on every path, and on the proxy
\* paths every query, header set and body as well
HTTPRequests ==
  {Request(m, p, <<>>, EmptyHeader, <<>>) : m \in Methods, p \in RequestPaths}
  \cup {Request(m, b \o httpPath.Proxy \o <<"x">>, q, h, body) :
          m \in Methods, b \in ServerBasePaths, q \in ProxyURLValues,
          h \in RequestHeaders, body \in Bodies}

\* errors of the HTTP transport and of the JSON decoder
TransportErrors == {"connection refused", "no such host"}

DecodeErrors == {"unexpected EOF", "invalid character"}

\* documents an upstream serves: OpenAPI 3 with a servers array, Swagger 2,
\* one without marker with a basePath, and one with no key the rewrite reads
FetchedDocuments ==
  {[NoDocument EXCEPT !.openapi = StringValue(<<"3", ".", "0">>),
                      !.servers = ArrayValue(<<ServerObject(<<"/", "a">>)>>)],
   [NoDocument EXCEPT !.swagger = StringValue(<<"2", ".", "0">>),
                      !.host = StringValue(<<"x">>)],
   [NoDocument EXCEPT !.basePath = StringValue(<<"a">>)],
   NoDocument}

\* what an outbound call comes back with: err is the transport error ("":
\* none); if none, StatusCode, Header and Body are the upstream response,
\* decodeErr the error json.Decoder reports on the body ("": none) and doc
\* what it decodes to, copyErr tells that reading the body breaks off
Upstream(err, status, hdr, body, decodeErr, doc, copyErr) ==
  [err |-> err, StatusCode |-> status, Header |-> hdr, Body |-> body,
   decodeErr |-> decodeErr, doc |-> doc, copyErr |-> copyErr]

\* outcomes of http.Get(metadata.URL)
GetOutcomes ==
  {Upstream(e, 0, EmptyHeader, <<>>, "", NoDocument, FALSE) :
     e \in TransportErrors}
  \cup {Upstream("", c, EmptyHeader, <<"x", "y">>, "", NoDocument, FALSE) :
          c \in {201, 404, 503}}
  \cup {Upstream("", StatusOK, EmptyHeader, <<"x", "y">>, e, NoDocument,
                 FALSE) : e \in DecodeErrors}
  \cup {Upstream("", StatusOK, EmptyHeader, <<"x", "y">>, "", d, FALSE) :
          d \in FetchedDocuments}

\* response headers of a proxied upstream: none, a name with two values,
\* and CORS headers of its own
UpstreamHeaders ==
  {EmptyHeader,
   [EmptyHeader EXCEPT !["Set-Cookie"] = <<"c1", "c2">>,
                       ![header.ContentType] = <<contentType.JSON>>],
   [EmptyHeader EXCEPT ![header.AccessControlAllowOrigin] = <<"http://o">>]}

\* outcomes of client.Do(proxyReq)
DoOutcomes ==
  {Upstream(e, 0, EmptyHeader, <<>>, "", NoDocument, FALSE) :
     e \in TransportErrors}
  \cup {o \in {Upstream("", c, h, b, "", NoDocument, ce) :
                   c \in {StatusOK, StatusNotFound}, h \in UpstreamHeaders,
                   b \in Bodies, ce \in BOOLEAN} :
          o.copyErr => o.Body # <<>>}

\* the files embedded under swagger-ui/assets, by the path relative to it
swaggerUIAssets == {<<"/", "x", ".", "c", "s", "s">>}

\* the locals of a handler before it runs; read tells that the handler has
\* read s.specs, resp is what its outbound call came back with
NoLocals ==
  [apiName |-> <<>>, read |-> FALSE, exists |-> FALSE,
   metadata |-> ZeroMetadata, targetProxyURL |-> <<>>,
   relativePath |-> <<>>,
   resp |-> Upstream("", 0, EmptyHeader, <<>>, "", NoDocument, FALSE)]

\* an outbound HTTP call
Outbound(method, url, hdr, body) ==
  [Method |-> method, URL |-> url, Header |-> hdr, Body |-> body]

(***************************************************************************)
(* State                                                                   *)
(***************************************************************************)
VARIABLES
  mkURL,     \* SpecResolve: the metadataURL argument of makeServerURL
  mkPath,    \* SpecResolve: the pathComponent argument
  mkResult,  \* SpecResolve: the returned string
  mkDone,    \* SpecResolve: TRUE once makeServerURL has returned
  rwSpec,    \* SpecRewrite: the decoded document as fetched
  rwURL,     \* SpecRewrite: the parsed URL of the registry record
  rwOut,     \* SpecRewrite: the document after updateSpecServerInfo
  rwDone,    \* SpecRewrite: TRUE once updateSpecServerInfo has returned
  specs,     \* Server.specs: API name -> APIMetadata
  specsMux,  \* Server.specsMux
  upc,       \* position of each goroutine calling UpdateSpecs
  apis,      \* UpdateSpecs: its argument
  idx,       \* UpdateSpecs: index of the next candidate of the loop
  newSpecs,  \* UpdateSpecs: the local map being built
  rpc,       \* position of each request goroutine
  apiName,   \* serveIndividualSpec: the name asked for
  metadata,  \* serveIndividualSpec: the value read from the map
  exists,    \* serveIndividualSpec: whether the name was a key
  encoded,   \* serveSpecs: the map handed to the JSON encoder
  urlStr,    \* serveIndividualSpec: the URL given to http.Get
  metadataURL, \* serveIndividualSpec: the URL given to url.Parse, the
               \* base of updateSpecServerInfo
  lastReturned, \* history: the mapping of the UpdateSpecs call that
                \* returned last, as its batch defines it
  basePath,  \* Server.basePath
  httpReq,   \* SpecHTTP: r, the inbound *http.Request
  httpResp,  \* SpecHTTP: w, the http.ResponseWriter of the request
  pc,        \* SpecHTTP: position of the request in ServeHTTP
  handler,   \* SpecHTTP: the route handler ServeHTTP called, "" if none
  loc,       \* SpecHTTP: locals of the handler (apiName, metadata, ...)
  outbound,  \* SpecHTTP: the outbound HTTP calls made, in order
  logged,    \* SpecHTTP: what logAndSendError wrote to the server log
  wpc,       \* SpecWatch: position of watchSpecsConfigMap in its loop
  loaded     \* SpecWatch: specs, the list loadSpecs returned last

mkVars == <<mkURL, mkPath, mkResult, mkDone>>

rwVars == <<rwSpec, rwURL, rwOut, rwDone>>

regVars == <<specs, specsMux, upc, apis, idx, newSpecs, lastReturned>>

reqVars == <<rpc, apiName, metadata, exists, encoded, urlStr, metadataURL>>

httpVars ==
  <<basePath, httpReq, httpResp, pc, handler, loc, outbound, logged>>

watchVars == <<wpc, loaded>>

vars == <<mkVars, rwVars, regVars, reqVars, httpVars, watchVars>>

\* the goroutine of watchSpecsConfigMap
Watcher == "u1"

\* the variables of a specification that does not use them
mkIdle ==
  /\ mkURL = URLRec(Http, <<>>, <<"h">>, <<>>, <<>>)
  /\ mkPath = <<>>
  /\ mkResult = <<>>
  /\ mkDone = FALSE

rwIdle ==
  /\ rwSpec = [openapi |-> AbsentValue, swagger |-> AbsentValue,
               servers |-> AbsentValue, host |-> AbsentValue,
               basePath |-> AbsentValue, schemes |-> AbsentValue]
  /\ rwURL = URLRec(Http, <<>>, <<"h">>, <<>>, <<>>)
  /\ rwOut = rwSpec
  /\ rwDone = FALSE

\* NewServer: an empty map, a free mutex, nobody running
srvInit ==
  /\ specs = EmptyMap
  /\ specsMux = [writer |-> "none", held |-> FALSE, readers |-> {}]
  /\ upc = [u \in Updaters |-> "idle"]
  /\ apis = [u \in Updaters |-> <<>>]
  /\ idx = [u \in Updaters |-> 0]
  /\ newSpecs = [u \in Updaters |-> EmptyMap]
  /\ lastReturned = EmptyMap
  /\ rpc = [r \in Requests |-> "idle"]
  /\ apiName = [r \in Requests |-> ""]
  /\ metadata = [r \in Requests |-> ZeroMetadata]
  /\ exists = [r \in Requests |-> FALSE]
  /\ encoded = [r \in Requests |-> EmptyMap]
  /\ urlStr = [r \in Requests |-> ""]
  /\ metadataURL = [r \in Requests |-> ""]

\* watchSpecsConfigMap has not loaded anything
watchIdle ==
  /\ wpc = "load"
  /\ loaded = <<>>

\* no request is being served
httpIdle ==
  /\ basePath = <<>>
  /\ httpReq = Request("", <<>>, <<>>, EmptyHeader, <<>>)
  /\ httpResp = NewResponseWriter(FALSE)
  /\ pc = "idle"
  /\ handler = ""
  /\ loc = NoLocals
  /\ outbound = <<>>
  /\ logged = <<>>

(***************************************************************************)
(* SpecResolve: makeServerURL applied to every base and pathComponent      *)
(***************************************************************************)
InitResolve ==
  /\ mkURL \in MetadataURLs
  /\ mkPath \in PathComponents
  /\ mkResult = <<>>
  /\ mkDone = FALSE
  /\ rwIdle
  /\ srvInit
  /\ httpIdle
  /\ watchIdle

CallMakeServerURL ==
  /\ ~mkDone
  /\ mkResult' = makeServerURL(mkURL, mkPath)
  /\ mkDone' = TRUE
  /\ UNCHANGED <<mkURL, mkPath, rwVars, regVars, reqVars, httpVars, watchVars>>

NextResolve == CallMakeServerURL

SpecResolve == InitResolve /\ [][NextResolve]_vars

(***************************************************************************)
(* SpecRewrite: updateSpecServerInfo applied to every document and base    *)
(***************************************************************************)
InitRewrite ==
  /\ rwSpec \in Documents
  /\ rwURL \in MetadataURLs
  /\ rwOut = rwSpec
  /\ rwDone = FALSE
  /\ mkIdle
  /\ srvInit
  /\ httpIdle
  /\ watchIdle

CallUpdateSpecServerInfo ==
  /\ ~rwDone
  /\ rwOut' = updateSpecServerInfo(rwSpec, rwURL)
  /\ rwDone' = TRUE
  /\ UNCHANGED <<rwSpec, rwURL, mkVars, regVars, reqVars, httpVars, watchVars>>

NextRewrite == CallUpdateSpecServerInfo

SpecRewrite == InitRewrite /\ [][NextRewrite]_vars


(***************************************************************************)
(* Spec: the registry under concurrent UpdateSpecs calls and requests      *)
(***************************************************************************)
Init ==
  /\ srvInit
  /\ mkIdle
  /\ rwIdle
  /\ httpIdle
  /\ watchIdle

\* UpdateSpecs is called with a list; s.specsMux.Lock() gets the writers'
\* mutex and announces the writer to the readers
UpdateSpecsLock(u, list) ==
  /\ upc[u] = "idle"
  /\ canLock(specsMux)
  /\ specsMux' = [specsMux EXCEPT !.writer = u]
  /\ apis' = [apis EXCEPT ![u] = list]
  /\ upc' = [upc EXCEPT ![u] = "wait"]
  /\ UNCHANGED <<specs, idx, newSpecs, lastReturned, reqVars, mkVars, rwVars, httpVars, watchVars>>

\* Lock() returns; newSpecs is made
UpdateSpecsLocked(u) ==
  /\ upc[u] = "wait"
  /\ lockGranted(specsMux)
  /\ specsMux' = [specsMux EXCEPT !.held = TRUE]
  /\ newSpecs' = [newSpecs EXCEPT ![u] = freshSpecs(specs)]
  /\ idx' = [idx EXCEPT ![u] = 1]
  /\ upc' = [upc EXCEPT ![u] = "loop"]
  /\ UNCHANGED <<specs, apis, lastReturned, reqVars, mkVars, rwVars, httpVars, watchVars>>

\* one iteration of the loop over apis
UpdateSpecsCandidate(u) ==
  /\ upc[u] = "loop"
  /\ idx[u] <= Len(apis[u])
  /\ newSpecs' = [newSpecs EXCEPT ![u] = afterCandidate(@, apis[u][idx[u]])]
  /\ idx' = [idx EXCEPT ![u] = @ + 1]
  /\ UNCHANGED <<specs, specsMux, upc, apis, lastReturned, reqVars, mkVars,
                 rwVars, httpVars, watchVars>>

\* s.specs = newSpecs
UpdateSpecsAssign(u) ==
  /\ upc[u] = "loop"
  /\ idx[u] > Len(apis[u])
  /\ specs' = newSpecs[u]
  /\ upc' = [upc EXCEPT ![u] = "unlock"]
  /\ UNCHANGED <<specsMux, apis, idx, newSpecs, lastReturned, reqVars, mkVars,
                 rwVars, httpVars, watchVars>>

\* the deferred s.specsMux.Unlock(); UpdateSpecs returns
UpdateSpecsUnlock(u) ==
  /\ upc[u] = "unlock"
  /\ specsMux' = [specsMux EXCEPT !.writer = "none", !.held = FALSE]
  /\ lastReturned' = MappingOf(apis[u])
  /\ upc' = [upc EXCEPT ![u] = "idle"]
  /\ apis' = [apis EXCEPT ![u] = <<>>]
  /\ idx' = [idx EXCEPT ![u] = 0]
  /\ newSpecs' = [newSpecs EXCEPT ![u] = EmptyMap]
  /\ UNCHANGED <<specs, reqVars, mkVars, rwVars, httpVars, watchVars>>

\* serveSpecs: s.specsMux.RLock()
ServeSpecsRLock(r) ==
  /\ rpc[r] = "idle"
  /\ canRLock(specsMux)
  /\ specsMux' = [specsMux EXCEPT !.readers = @ \cup {r}]
  /\ rpc' = [rpc EXCEPT ![r] = "encode"]
  /\ UNCHANGED <<specs, upc, apis, idx, newSpecs, lastReturned, apiName,
                 metadata, exists, encoded, mkVars, rwVars, httpVars, watchVars, urlStr, metadataURL>>

\* serveSpecs: json.NewEncoder(w).Encode(s.specs)
ServeSpecsEncode(r) ==
  /\ rpc[r] = "encode"
  /\ encoded' = [encoded EXCEPT ![r] = specs]
  /\ rpc' = [rpc EXCEPT ![r] = "encoded"]
  /\ UNCHANGED <<regVars, apiName, metadata, exists, mkVars, rwVars, httpVars, watchVars, urlStr, metadataURL>>

\* serveSpecs: the deferred RUnlock; the handler returns
ServeSpecsRUnlock(r) ==
  /\ rpc[r] = "encoded"
  /\ specsMux' = [specsMux EXCEPT !.readers = @ \ {r}]
  /\ encoded' = [encoded EXCEPT ![r] = EmptyMap]
  /\ rpc' = [rpc EXCEPT ![r] = "idle"]
  /\ UNCHANGED <<specs, upc, apis, idx, newSpecs, lastReturned, apiName,
                 metadata, exists, mkVars, rwVars, httpVars, watchVars, urlStr, metadataURL>>

\* serveIndividualSpec: apiName is taken from the path; s.specsMux.RLock()
ServeIndividualSpecRLock(r, name) ==
  /\ rpc[r] = "idle"
  /\ canRLock(specsMux)
  /\ specsMux' = [specsMux EXCEPT !.readers = @ \cup {r}]
  /\ apiName' = [apiName EXCEPT ![r] = name]
  /\ rpc' = [rpc EXCEPT ![r] = "lookup"]
  /\ UNCHANGED <<specs, upc, apis, idx, newSpecs, lastReturned, metadata,
                 exists, encoded, mkVars, rwVars, httpVars, watchVars, urlStr, metadataURL>>

\* serveIndividualSpec: metadata, exists := s.specs[apiName]
ServeIndividualSpecLookup(r) ==
  /\ rpc[r] = "lookup"
  /\ exists' = [exists EXCEPT ![r] = apiName[r] \in DOMAIN specs]
  /\ metadata' = [metadata EXCEPT ![r] =
       IF apiName[r] \in DOMAIN specs THEN specs[apiName[r]]
       ELSE ZeroMetadata]
  /\ rpc' = [rpc EXCEPT ![r] = "found"]
  /\ UNCHANGED <<regVars, apiName, encoded, mkVars, rwVars, httpVars, watchVars, urlStr, metadataURL>>

\* serveIndividualSpec: s.specsMux.RUnlock()
ServeIndividualSpecRUnlock(r) ==
  /\ rpc[r] = "found"
  /\ specsMux' = [specsMux EXCEPT !.readers = readersAfterLookup(@, r)]
  /\ rpc' = [rpc EXCEPT ![r] = IF exists[r] THEN "unlocked" ELSE "notfound"]
  /\ UNCHANGED <<specs, upc, apis, idx, newSpecs, lastReturned, apiName,
                 metadata, exists, encoded, urlStr, metadataURL, mkVars,
                 rwVars, httpVars, watchVars>>

\* serveIndividualSpec: !exists, the 404 is sent and the handler returns
ServeIndividualSpecNotFound(r) ==
  /\ rpc[r] = "notfound"
  /\ rpc' = [rpc EXCEPT ![r] = "idle"]
  /\ apiName' = [apiName EXCEPT ![r] = ""]
  /\ metadata' = [metadata EXCEPT ![r] = ZeroMetadata]
  /\ exists' = [exists EXCEPT ![r] = FALSE]
  /\ UNCHANGED <<regVars, encoded, mkVars, rwVars, httpVars, watchVars, urlStr, metadataURL>>

\* serveIndividualSpec: urlStr := metadata.URL and http.Get(urlStr) is
\* issued; the goroutine waits for the upstream
ServeIndividualSpecGet(r) ==
  /\ rpc[r] = "unlocked"
  /\ urlStr' = [urlStr EXCEPT ![r] = fetchURL(metadata[r])]
  /\ rpc' = [rpc EXCEPT ![r] = "fetch"]
  /\ UNCHANGED <<regVars, apiName, metadata, exists, encoded, metadataURL,
                 mkVars, rwVars, httpVars, watchVars>>

\* serveIndividualSpec: http.Get returns a document; url.Parse(metadata.URL)
\* gives the base updateSpecServerInfo resolves against
ServeIndividualSpecFetched(r) ==
  /\ rpc[r] = "fetch"
  /\ metadataURL' = [metadataURL EXCEPT ![r] =
       rewriteBase(metadata[r], specs, apiName[r])]
  /\ rpc' = [rpc EXCEPT ![r] = "respond"]
  /\ UNCHANGED <<regVars, apiName, metadata, exists, encoded, urlStr, mkVars,
                 rwVars, httpVars, watchVars>>

\* serveIndividualSpec: the response is written from the rewritten document
\* (or the error of the fetch) and the handler returns
ServeIndividualSpecRespond(r) ==
  /\ rpc[r] \in {"fetch", "respond"}
  /\ rpc' = [rpc EXCEPT ![r] = "idle"]
  /\ apiName' = [apiName EXCEPT ![r] = ""]
  /\ metadata' = [metadata EXCEPT ![r] = ZeroMetadata]
  /\ exists' = [exists EXCEPT ![r] = FALSE]
  /\ urlStr' = [urlStr EXCEPT ![r] = ""]
  /\ metadataURL' = [metadataURL EXCEPT ![r] = ""]
  /\ UNCHANGED <<regVars, encoded, mkVars, rwVars, httpVars, watchVars>>

\* proxyRequest: client.Do(proxyReq) is issued; the handler does not touch
\* s.specs or s.specsMux
ProxyRequestDo(r) ==
  /\ rpc[r] = "idle"
  /\ rpc' = [rpc EXCEPT ![r] = "dispatch"]
  /\ UNCHANGED <<regVars, apiName, metadata, exists, encoded, urlStr,
                 metadataURL, mkVars, rwVars, httpVars, watchVars>>

\* proxyRequest: client.Do returns, the response is relayed and the handler
\* returns
ProxyRequestReturned(r) ==
  /\ rpc[r] = "dispatch"
  /\ rpc' = [rpc EXCEPT ![r] = "idle"]
  /\ UNCHANGED <<regVars, apiName, metadata, exists, encoded, urlStr,
                 metadataURL, mkVars, rwVars, httpVars, watchVars>>

Next ==
  \/ \E u \in Updaters, list \in Batches : UpdateSpecsLock(u, list)
  \/ \E u \in Updaters : UpdateSpecsLocked(u)
  \/ \E u \in Updaters : UpdateSpecsCandidate(u)
  \/ \E u \in Updaters : UpdateSpecsAssign(u)
  \/ \E u \in Updaters : UpdateSpecsUnlock(u)
  \/ \E r \in Requests : ServeSpecsRLock(r)
  \/ \E r \in Requests : ServeSpecsEncode(r)
  \/ \E r \in Requests : ServeSpecsRUnlock(r)
  \/ \E r \in Requests, name \in Names : ServeIndividualSpecRLock(r, name)
  \/ \E r \in Requests : ServeIndividualSpecLookup(r)
  \/ \E r \in Requests : ServeIndividualSpecRUnlock(r)
  \/ \E r \in Requests : ServeIndividualSpecNotFound(r)
  \/ \E r \in Requests : ServeIndividualSpecGet(r)
  \/ \E r \in Requests : ServeIndividualSpecFetched(r)
  \/ \E r \in Requests : ServeIndividualSpecRespond(r)
  \/ \E r \in Requests : ProxyRequestDo(r)
  \/ \E r \in Requests : ProxyRequestReturned(r)

Spec == Init /\ [][Next]_vars

(***************************************************************************)
(* SpecServe: the server as main runs it, with watchSpecsConfigMap the     *)
(* only caller of UpdateSpecs, and the request goroutines.                 *)
(***************************************************************************)
NextServe ==
  \/ \E list \in Batches : UpdateSpecsLock(Watcher, list)
  \/ UpdateSpecsLocked(Watcher)
  \/ UpdateSpecsCandidate(Watcher)
  \/ UpdateSpecsAssign(Watcher)
  \/ UpdateSpecsUnlock(Watcher)
  \/ \E r \in Requests : ServeSpecsRLock(r)
  \/ \E r \in Requests : ServeSpecsEncode(r)
  \/ \E r \in Requests : ServeSpecsRUnlock(r)
  \/ \E r \in Requests, name \in Names : ServeIndividualSpecRLock(r, name)
  \/ \E r \in Requests : ServeIndividualSpecLookup(r)
  \/ \E r \in Requests : ServeIndividualSpecRUnlock(r)
  \/ \E r \in Requests : ServeIndividualSpecNotFound(r)
  \/ \E r \in Requests : ServeIndividualSpecGet(r)
  \/ \E r \in Requests : ServeIndividualSpecFetched(r)
  \/ \E r \in Requests : ServeIndividualSpecRespond(r)
  \/ \E r \in Requests : ProxyRequestDo(r)
  \/ \E r \in Requests : ProxyRequestReturned(r)

\* The scheduler runs every goroutine that can take a step of its own. The
\* steps that need the upstream to answer (ServeIndividualSpecFetched,
\* ServeIndividualSpecRespond, ProxyRequestReturned) and the arrival of
\* calls and requests are not forced: an upstream may never respond.
SpecServe ==
  /\ Init
  /\ [][NextServe]_vars
  /\ WF_vars(\/ UpdateSpecsLocked(Watcher)
             \/ UpdateSpecsCandidate(Watcher)
             \/ UpdateSpecsAssign(Watcher)
             \/ UpdateSpecsUnlock(Watcher))
  /\ \A r \in Requests :
       WF_vars(\/ ServeSpecsEncode(r)
               \/ ServeSpecsRUnlock(r)
               \/ ServeIndividualSpecLookup(r)
               \/ ServeIndividualSpecRUnlock(r)
               \/ ServeIndividualSpecNotFound(r)
               \/ ServeIndividualSpecGet(r))

(***************************************************************************)
(* SpecHTTP: one request through ServeHTTP and its handler, against a      *)
(* registry snapshot. No UpdateSpecs call runs here, so the read lock of   *)
(* a handler is granted at once and a handler's RLock, read and RUnlock    *)
(* are one step. The outbound calls of serveIndividualSpec and             *)
(* proxyRequest split their handlers in two steps: up to the call, and     *)
(* from what the call comes back with.                                     *)
(***************************************************************************)
InitHTTP ==
  /\ mkIdle
  /\ rwIdle
  /\ specs \in RegistrySnapshots
  /\ lastReturned = specs
  /\ specsMux = [writer |-> "none", held |-> FALSE, readers |-> {}]
  /\ upc = [u \in Updaters |-> "idle"]
  /\ apis = [u \in Updaters |-> <<>>]
  /\ idx = [u \in Updaters |-> 0]
  /\ newSpecs = [u \in Updaters |-> EmptyMap]
  /\ rpc = [q \in Requests |-> "idle"]
  /\ apiName = [q \in Requests |-> ""]
  /\ metadata = [q \in Requests |-> ZeroMetadata]
  /\ exists = [q \in Requests |-> FALSE]
  /\ encoded = [q \in Requests |-> EmptyMap]
  /\ urlStr = [q \in Requests |-> ""]
  /\ metadataURL = [q \in Requests |-> ""]
  /\ basePath \in ServerBasePaths
  /\ httpReq \in HTTPRequests
  /\ httpResp \in {NewResponseWriter(broken) : broken \in BOOLEAN}
  /\ pc = "ServeHTTP"
  /\ handler = ""
  /\ loc = NoLocals
  /\ outbound = <<>>
  /\ logged = <<>>
  /\ watchIdle

\* ServeHTTP up to the call of the route handler
ServeHTTP ==
  /\ pc = "ServeHTTP"
  /\ LET w1 == [httpResp EXCEPT !.Header = corsHeaders(@)]
         path == stripBasePath(basePath, httpReq.Path)
     IN IF isPreflight(httpReq.Method)
        THEN /\ httpResp' = WriteHeader(w1, StatusOK)
             /\ pc' = "done"
             /\ handler' = handler
        ELSE /\ httpResp' = w1
             /\ pc' = route(path)
             /\ handler' = route(path)
  /\ UNCHANGED <<basePath, httpReq, loc, outbound, logged, mkVars, rwVars,
                 regVars, reqVars, watchVars>>

\* serveIndex; readable tells whether swaggerUI.ReadFile finds index.html
serveIndex ==
  /\ pc = "serveIndex"
  /\ \E readable \in BOOLEAN :
       LET st == [w |-> httpResp, logged |-> logged]
           w1 == [httpResp EXCEPT
                    !.Header = HeaderSet(@, header.ContentType, contentType.HTML)]
           res == IF ~readable
                  THEN logAndSendError(st, httpReq, StatusInternalServerError,
                         SprintfErr("Failed to serve embedded file %s: %v",
                                    "file does not exist"),
                         Msg(errMsg.FailedToReadIndexHTML))
                  ELSE writeOrFail([st EXCEPT !.w = w1], httpReq,
                                   BytesBody(indexHTML(basePath)),
                                   errMsg.FailedToWriteResponse)
       IN /\ httpResp' = res.w
          /\ logged' = res.logged
  /\ pc' = "done"
  /\ UNCHANGED <<basePath, httpReq, handler, loc, outbound, mkVars, rwVars,
                 regVars, reqVars, watchVars>>

\* serveSpecs
serveSpecs ==
  /\ pc = "serveSpecs"
  /\ canRLock(specsMux)
  /\ LET w1 == [httpResp EXCEPT
                  !.Header = HeaderSet(@, header.ContentType, contentType.JSON)]
         res == writeOrFail([w |-> w1, logged |-> logged], httpReq,
                            SpecsBody(specs), errMsg.FailedToEncodeSpecs)
     IN /\ httpResp' = res.w
        /\ logged' = res.logged
  /\ loc' = [loc EXCEPT !.read = TRUE]
  /\ pc' = "done"
  /\ UNCHANGED <<basePath, httpReq, handler, outbound, mkVars, rwVars,
                 regVars, reqVars, watchVars>>

\* serveStaticFiles: the file is looked for under swagger-ui/assets and then
\* under swagger-ui, where the only file, index.html, has a route of its own
serveStaticFiles ==
  /\ pc = "serveStaticFiles"
  /\ LET relativePath == stripBasePath(basePath, httpReq.Path)
         st == [w |-> httpResp, logged |-> logged]
         w1 == [httpResp EXCEPT
                  !.Header = HeaderSet(
                     HeaderSet(@, header.ContentType,
                               getContentType(relativePath)),
                     "Cache-Control", "public, max-age=3600")]
         res == IF relativePath \notin swaggerUIAssets
                   /\ relativePath # httpPath.IndexHTML
                THEN logAndSendError(st, httpReq, StatusNotFound,
                       SprintfStr(errMsg.StaticFileNotFound, relativePath),
                       Msg(errMsg.StaticFileNotFound))
                ELSE writeOrFail([st EXCEPT !.w = w1], httpReq,
                                 BytesBody(<<"file">> \o relativePath),
                                 errMsg.FailedToWriteResponse)
     IN /\ httpResp' = res.w
        /\ logged' = res.logged
        /\ loc' = [loc EXCEPT !.relativePath = relativePath]
  /\ pc' = "done"
  /\ UNCHANGED <<basePath, httpReq, handler, outbound, mkVars, rwVars,
                 regVars, reqVars, watchVars>>

\* the text of the URL of a record, "" for the zero value
urlText(u) == IF u \in DOMAIN RecordURLs THEN URLString(RecordURLs[u]) ELSE <<>>

\* url.Parse(metadata.URL): the empty URL for the zero value
parseRecordURL(u) ==
  IF u \in DOMAIN RecordURLs THEN RecordURLs[u]
  ELSE URLRec(<<>>, <<>>, <<>>, <<>>, <<>>)

\* serveIndividualSpec up to the call of http.Get(urlStr)
serveIndividualSpec ==
  /\ pc = "serveIndividualSpec"
  /\ canRLock(specsMux)
  /\ LET name == TrimPrefix(httpReq.Path, httpPath.API)
         found == mapHas(specs, name)
         st == [w |-> httpResp, logged |-> logged]
         res == IF ~found
                THEN logAndSendError(st, httpReq, StatusNotFound,
                       SprintfStr(errMsg.APINotFound, name),
                       Msg(errMsg.APINotFound))
                ELSE st
     IN /\ loc' = [loc EXCEPT !.apiName = name, !.read = TRUE,
                              !.exists = found,
                              !.metadata = mapGet(specs, name)]
        /\ httpResp' = res.w
        /\ logged' = res.logged
        /\ outbound' =
             IF found
             THEN Append(outbound,
                         Outbound("GET", urlText(mapGet(specs, name).URL),
                                  EmptyHeader, <<>>))
             ELSE outbound
        /\ pc' = IF found THEN "http.Get" ELSE "done"
  /\ UNCHANGED <<basePath, httpReq, handler, mkVars, rwVars, regVars, reqVars, watchVars>>

\* serveIndividualSpec from the return of http.Get. url.Parse(metadata.URL)
\* cannot fail here, since http.Get has parsed the same string.
serveIndividualSpecGot(resp) ==
  /\ pc = "http.Get"
  /\ LET st == [w |-> httpResp, logged |-> logged]
         w1 == [httpResp EXCEPT
                  !.Header = HeaderSet(@, header.ContentType, contentType.JSON)]
         res ==
           IF resp.err # ""
           THEN logAndSendError(st, httpReq, StatusInternalServerError,
                  SprintfErr(errMsg.FailedToFetchSpec, resp.err),
                  SprintfErr(errMsg.FailedToFetchSpec, resp.err))
           ELSE IF resp.StatusCode # StatusOK
           THEN logAndSendError(st, httpReq, resp.StatusCode,
                  SprintfCode(errMsg.FailedToFetchSpecStatus, resp.StatusCode),
                  SprintfCode(errMsg.FailedToFetchSpecStatus, resp.StatusCode))
           ELSE IF resp.decodeErr # ""
           THEN logAndSendError(st, httpReq, StatusInternalServerError,
                  SprintfErr(errMsg.FailedToDecodeOpenAPISpec, resp.decodeErr),
                  SprintfErr(errMsg.FailedToDecodeOpenAPISpec, resp.decodeErr))
           ELSE writeOrFail([st EXCEPT !.w = w1], httpReq,
                  DocumentBody(updateSpecServerInfo(
                                 resp.doc, parseRecordURL(loc.metadata.URL))),
                  errMsg.FailedToEncodeModifiedSpec)
     IN /\ httpResp' = res.w
        /\ logged' = res.logged
  /\ loc' = [loc EXCEPT !.resp = resp]
  /\ pc' = "done"
  /\ UNCHANGED <<basePath, httpReq, handler, outbound, mkVars, rwVars,
                 regVars, reqVars, watchVars>>

\* proxyRequest up to the call of client.Do(proxyReq); readErr tells whether
\* io.ReadAll(r.Body) fails
proxyRequest ==
  /\ pc = "proxyRequest"
  /\ \E readErr \in BOOLEAN :
       LET targetProxyURL == QueryGet(httpReq.Query)
           bodyBytes == httpReq.Body
           st == [w |-> httpResp, logged |-> logged]
           createErr == urlParse(targetProxyURL).err
           res ==
             IF targetMissing(targetProxyURL)
             THEN logAndSendError(st, httpReq, StatusBadRequest,
                    Msg(errMsg.ProxyURLRequired), Msg(errMsg.ProxyURLRequired))
             ELSE IF readErr
             THEN logAndSendError(st, httpReq, StatusInternalServerError,
                    SprintfErr("Failed to read request body for proxy: %v",
                               "unexpected EOF"),
                    Msg("Failed to read request body"))
             ELSE IF createErr
             THEN logAndSendError(st, httpReq, StatusInternalServerError,
                    [SprintfErr(errMsg.FailedToCreateProxyReq,
                                "missing protocol scheme")
                       EXCEPT !.arg = targetProxyURL],
                    [SprintfErr(errMsg.FailedToCreateProxyReq,
                                "missing protocol scheme")
                       EXCEPT !.arg = targetProxyURL])
             ELSE st
           dispatched ==
             ~targetMissing(targetProxyURL) /\ ~readErr /\ ~createErr
       IN /\ httpResp' = res.w
          /\ logged' = res.logged
          /\ loc' = [loc EXCEPT !.targetProxyURL = targetProxyURL]
          /\ httpReq' =
               IF targetMissing(targetProxyURL) THEN httpReq
               ELSE IF readErr THEN [httpReq EXCEPT !.Body = <<>>]
               ELSE [httpReq EXCEPT !.Body = replayBody(bodyBytes)]
          /\ outbound' =
               IF dispatched
               THEN Append(outbound,
                           Outbound(httpReq.Method, targetProxyURL,
                                    HeaderAddAll(EmptyHeader, httpReq.Header),
                                    bodyBytes))
               ELSE outbound
          /\ pc' = IF dispatched THEN "client.Do" ELSE "done"
  /\ UNCHANGED <<basePath, handler, mkVars, rwVars, regVars, reqVars, watchVars>>

\* proxyRequest from the return of client.Do: the error answer, or the
\* upstream headers, status and body; a body whose copy breaks off reaches
\* the client up to there, and the failure is only logged
proxyRequestDone(resp) ==
  /\ pc = "client.Do"
  /\ LET st == [w |-> httpResp, logged |-> logged]
         w1 == [httpResp EXCEPT !.Header = HeaderAddAll(@, resp.Header)]
         w2 == WriteHeader(w1, resp.StatusCode)
         copied == IF resp.copyErr THEN SubSeq(resp.Body, 1, Len(resp.Body) - 1)
                   ELSE resp.Body
         copyFailed == resp.copyErr \/ (httpResp.Broken /\ resp.Body # <<>>)
         res ==
           IF resp.err # ""
           THEN logAndSendError(
                  [st EXCEPT !.logged =
                     Append(@, [Method |-> httpReq.Method,
                                Path |-> httpReq.Path, Status |-> 0,
                                Msg |-> SprintfErr(
                                  "Error forwarding proxy request: %v",
                                  resp.err)])],
                  httpReq, StatusInternalServerError,
                  SprintfErr(errMsg.FailedToForwardProxyReq, resp.err),
                  SprintfErr(errMsg.FailedToForwardProxyReq, resp.err))
           ELSE [w |-> Copy(w2, copied),
                 logged |-> IF copyFailed
                            THEN Append(logged,
                                   [Method |-> httpReq.Method,
                                    Path |-> httpReq.Path,
                                    Status |-> StatusInternalServerError,
                                    Msg |-> SprintfErr(
                                      "Error copying response body: %v",
                                      "unexpected EOF")])
                            ELSE logged]
     IN /\ httpResp' = res.w
        /\ logged' = res.logged
  /\ loc' = [loc EXCEPT !.resp = resp]
  /\ pc' = "done"
  /\ UNCHANGED <<basePath, httpReq, handler, outbound, mkVars, rwVars,
                 regVars, reqVars, watchVars>>

\* the inbound caller disconnects while the handler waits in http.Get or
\* client.Do: net/http cancels r.Context() and later writes to w fail. Both
\* outbound requests are built without that context (http.Get(urlStr),
\* http.NewRequest) and the clients have no Timeout, so the disconnect
\* enables no step of the handler: it leaves the wait only through
\* serveIndividualSpecGot or proxyRequestDone.
ClientDisconnects ==
  /\ pc \in {"http.Get", "client.Do"}
  /\ ~httpReq.Cancelled
  /\ httpReq' = [httpReq EXCEPT !.Cancelled = TRUE]
  /\ httpResp' = [httpResp EXCEPT !.Broken = TRUE]
  /\ UNCHANGED <<basePath, pc, handler, loc, outbound, logged, mkVars, rwVars,
                 regVars, reqVars, watchVars>>

NextHTTP ==
  \/ ServeHTTP
  \/ serveIndex
  \/ serveSpecs
  \/ serveStaticFiles
  \/ serveIndividualSpec
  \/ \E resp \in GetOutcomes : serveIndividualSpecGot(resp)
  \/ proxyRequest
  \/ \E resp \in DoOutcomes : proxyRequestDone(resp)
  \/ ClientDisconnects

SpecHTTP == InitHTTP /\ [][NextHTTP]_vars

\* SpecHTTP with a scheduler that runs the handler whenever it can take a
\* step of its own; the answer of the upstream and the disconnect of the
\* caller are not forced
SpecHTTPFair ==
  /\ SpecHTTP
  /\ WF_vars(\/ ServeHTTP
             \/ serveIndex
             \/ serveSpecs
             \/ serveStaticFiles
             \/ serveIndividualSpec
             \/ proxyRequest)

(***************************************************************************)
(* SpecWatch: the loop of watchSpecsConfigMap, the one goroutine main      *)
(* starts to feed the server. wpc is "load" before loadSpecs, "decide" at  *)
(* the test of len(specs), and "sleep" at time.Sleep, which is reached     *)
(* once a call of UpdateSpecs has returned.                                *)
(***************************************************************************)
\* the entries of cm.Data in the order the range loop meets them: an entry
\* that unmarshals into a record, or one that does not
ConfigMapData ==
  UNION {[1..k -> {[valid |-> TRUE, api |-> c] : c \in Candidates}
                  \cup {[valid |-> FALSE, api |-> ZeroMetadata]}] :
           k \in 0..MaxBatch}

\* loadSpecs: the empty list when the cluster configuration, the client or
\* the ConfigMap cannot be had (getErr), else the records of the entries
\* that unmarshal
loadSpecs(getErr, data) ==
  LET good == SelectSeq(data, LAMBDA e : e.valid)
  IN IF getErr THEN <<>> ELSE [i \in 1..Len(good) |-> good[i].api]

\* a watcher that hands every list to the server
shouldUpdate_Always(list) == TRUE

\* len(specs) > 0
shouldUpdate(list) == Len(list) > 0

InitWatch ==
  /\ srvInit
  /\ mkIdle
  /\ rwIdle
  /\ httpIdle
  /\ watchIdle

\* specs := loadSpecs(namespace, configMapName)
WatchLoadSpecs ==
  /\ wpc = "load"
  /\ \E getErr \in BOOLEAN, data \in ConfigMapData :
       loaded' = loadSpecs(getErr, data)
  /\ wpc' = "decide"
  /\ UNCHANGED <<mkVars, rwVars, regVars, reqVars, httpVars>>

\* len(specs) > 0: s.UpdateSpecs(specs) is called, up to its Lock()
WatchUpdateSpecs ==
  /\ wpc = "decide"
  /\ shouldUpdate(loaded)
  /\ upc[Watcher] = "idle"
  /\ canLock(specsMux)
  /\ specsMux' = [specsMux EXCEPT !.writer = Watcher]
  /\ apis' = [apis EXCEPT ![Watcher] = loaded]
  /\ upc' = [upc EXCEPT ![Watcher] = "wait"]
  /\ wpc' = "sleep"
  /\ UNCHANGED <<specs, idx, newSpecs, lastReturned, loaded, mkVars, rwVars,
                 reqVars, httpVars>>

\* the else branch: a warning, the server is not updated
WatchSkip ==
  /\ wpc = "decide"
  /\ ~shouldUpdate(loaded)
  /\ wpc' = "sleep"
  /\ UNCHANGED <<loaded, mkVars, rwVars, regVars, reqVars, httpVars>>

\* time.Sleep(watchInterval), and the loop starts over
WatchSleep ==
  /\ wpc = "sleep"
  /\ upc[Watcher] = "idle"
  /\ wpc' = "load"
  /\ UNCHANGED <<loaded, mkVars, rwVars, regVars, reqVars, httpVars>>

NextWatch ==
  \/ WatchLoadSpecs
  \/ WatchUpdateSpecs
  \/ WatchSkip
  \/ WatchSleep
  \/ UpdateSpecsLocked(Watcher)
  \/ UpdateSpecsCandidate(Watcher)
  \/ UpdateSpecsAssign(Watcher)
  \/ UpdateSpecsUnlock(Watcher)

SpecWatch == InitWatch /\ [][NextWatch]_vars

(***************************************************************************)
(* Claims about makeServerURL (checked under SpecResolve)                  *)
(***************************************************************************)
\* the base path made to end with "/"
WithTrailingSlash(path) ==
  IF path # <<>> /\ path[Len(path)] = "/" THEN path ELSE path \o <<"/">>

\* pathComponent has a scheme of its own: url.Parse accepts it and reports
\* an absolute URL
ParsesAsAbsolute(pathComponent) ==
  ~urlParse(pathComponent).err /\ IsAbs(urlParse(pathComponent))

\* what C6 states for a relative pathComponent: scheme://host, then the
\* slash-terminated base path followed by pathComponent, dot-segments removed
C6_RelativeExpected(u, pathComponent) ==
  SchemeHost(u)
  \o resolvePath(WithTrailingSlash(u.Path) \o pathComponent, <<>>)

\* C6: for every non-empty pathComponent without a scheme, makeServerURL
\* returns scheme://host + pathComponent when pathComponent starts with "/",
\* and otherwise scheme://host + basePath + "/" + pathComponent with
\* dot-segments normalised, the last segment of the base path kept.
C6_ResolveRelative ==
  (mkDone /\ mkPath # <<>> /\ ~ParsesAsAbsolute(mkPath)) =>
    IF mkPath[1] = "/"
    THEN mkResult = SchemeHost(mkURL) \o mkPath
    ELSE mkResult = C6_RelativeExpected(mkURL, mkPath)

\* the part of C6 the code satisfies: pathComponents starting with "/", and
\* relative ones that need no escaping, on a base without userinfo
C6_HoldsWithoutEscapingAndUserinfo ==
  (/\ mkDone /\ mkPath # <<>> /\ ~ParsesAsAbsolute(mkPath)
   /\ (mkPath[1] = "/"
       \/ (IndexOf(mkPath, "{") = 0 /\ mkURL.User = <<>>))) =>
    IF mkPath[1] = "/"
    THEN mkResult = SchemeHost(mkURL) \o mkPath
    ELSE mkResult = C6_RelativeExpected(mkURL, mkPath)

\* C7: makeServerURL(base, "") is scheme://host of the base, whatever path
\* and query the base carries.
C7_EmptyIsSchemeHost ==
  (mkDone /\ mkPath = <<>>) =>
    mkResult = mkURL.Scheme \o <<":", "/", "/">> \o mkURL.Host

C7_Witness ==
  /\ mkDone /\ mkPath = <<>>
  /\ mkURL.Path # <<>> /\ mkURL.RawQuery # <<>>
  /\ mkResult = Https \o <<":", "/", "/", "h", ":", "8", "0">>

\* C8: a pathComponent that parses as an absolute URL is returned unchanged,
\* for every base.
C8_AbsoluteUnchanged ==
  (mkDone /\ ParsesAsAbsolute(mkPath)) => mkResult = mkPath

C8_Witness ==
  /\ mkDone /\ ParsesAsAbsolute(mkPath)
  /\ mkPath = <<"a", ":", "/", "a">>
  /\ mkURL.Path = <<"/", "b", "/", "c">>
  /\ mkResult = mkPath


(***************************************************************************)
(* Claims about updateSpecServerInfo (checked under SpecRewrite)           *)
(***************************************************************************)
\* the document carries the OpenAPI 3.x marker
IsOpenAPI3(doc) ==
  doc.openapi.k = "string" /\ HasPrefix(doc.openapi.s, <<"3", ".">>)

\* the document is not OpenAPI 3.x and carries the Swagger 2.0 marker
IsSwagger2(doc) ==
  /\ ~IsOpenAPI3(doc)
  /\ doc.swagger.k = "string" /\ doc.swagger.s = <<"2", ".", "0">>

\* servers is a non-empty array whose first entry is an object with a
\* string url
HasFirstServerURL(doc) ==
  /\ doc.servers.k = "array" /\ Len(doc.servers.a) > 0
  /\ doc.servers.a[1].k = "object" /\ doc.servers.a[1].url.k = "string"

\* entries 2.. of the rewritten servers array are the entries of orig
RestIs(out, orig) ==
  /\ Len(out) = Len(orig) + 1
  /\ \A i \in 1..Len(orig) : out[i + 1] = orig[i]

\* C1: an OpenAPI 3.x document with a non-empty servers array (first entry
\* an object with a string url) gets a servers array whose first entry's url
\* is makeServerURL(base, first url), followed by the whole original array
\* in order.
C1_ServersPrepended ==
  (rwDone /\ IsOpenAPI3(rwSpec) /\ HasFirstServerURL(rwSpec)) =>
    /\ rwOut.servers.k = "array"
    /\ RestIs(rwOut.servers.a, rwSpec.servers.a)
    /\ rwOut.servers.a[1].url =
         StringValue(makeServerURL(rwURL, rwSpec.servers.a[1].url.s))

C1_Witness ==
  /\ rwDone /\ IsOpenAPI3(rwSpec) /\ HasFirstServerURL(rwSpec)
  /\ Len(rwSpec.servers.a) = 2
  /\ rwSpec.servers.a[1].url.s = <<"a">>
  /\ rwSpec.servers.a[2].description.k = "string"
  /\ rwURL.Path = <<"/", "b">> /\ rwURL.User = <<>>
  /\ Len(rwOut.servers.a) = 3
  /\ rwOut.servers.a[1].url.s =
       <<"h", "t", "t", "p", ":", "/", "/", "h", "/", "b", "/", "a">>

\* C2 as stated: an OpenAPI 3.x document whose servers is empty, absent or
\* malformed gets a servers array of exactly one entry, with url
\* makeServerURL(base, "").
C2_Original_ExactlyOneEntry ==
  (rwDone /\ IsOpenAPI3(rwSpec) /\ ~HasFirstServerURL(rwSpec)) =>
    /\ rwOut.servers.k = "array"
    /\ Len(rwOut.servers.a) = 1
    /\ rwOut.servers.a[1].url = StringValue(SchemeHost(rwURL))

\* C2 as amended: such a document gets a servers array whose first entry has
\* url makeServerURL(base, "") and whose remaining entries are the entries
\* of the original array, if servers was an array (so exactly one entry when
\* servers is absent, empty or no array).
C2_FallbackPrepended ==
  (rwDone /\ IsOpenAPI3(rwSpec) /\ ~HasFirstServerURL(rwSpec)) =>
    /\ rwOut.servers.k = "array"
    /\ RestIs(rwOut.servers.a,
              IF rwSpec.servers.k = "array" THEN rwSpec.servers.a ELSE <<>>)
    /\ rwOut.servers.a[1] = ServerObject(SchemeHost(rwURL))
    /\ (rwSpec.servers.k # "array" \/ rwSpec.servers.a = <<>>)
         => Len(rwOut.servers.a) = 1

C2_Witness ==
  /\ rwDone /\ IsOpenAPI3(rwSpec) /\ ~HasFirstServerURL(rwSpec)
  /\ rwSpec.servers.k = "array" /\ Len(rwSpec.servers.a) = 2
  /\ rwSpec.servers.a[1].k = "other"
  /\ rwURL.Path # <<>> /\ rwURL.RawQuery # <<>>
  /\ Len(rwOut.servers.a) = 3
  /\ rwOut.servers.a[1].url.s = Https \o <<":", "/", "/", "h", ":", "8", "0">>

\* the fields a dialect rule leaves alone
Untouched(fields) == \A f \in fields : rwOut[f] = rwSpec[f]

\* C3: the OpenAPI 3.x rule is applied exactly when openapi is a string
\* starting with "3."; otherwise the Swagger 2.0 rule exactly when swagger is
\* the string "2.0"; otherwise the legacy rule. One rule is applied: the
\* fields of the other two rules are left as they were.
C3_DialectDispatch ==
  rwDone =>
    IF IsOpenAPI3(rwSpec)
    THEN /\ rwOut.servers.k = "array"
         /\ Len(rwOut.servers.a) = Len(AsArray(rwSpec.servers)) + 1
         /\ Untouched({"openapi", "swagger", "host", "basePath", "schemes"})
    ELSE IF IsSwagger2(rwSpec)
    THEN /\ rwOut.host = StringValue(rwURL.Host)
         /\ Untouched({"openapi", "swagger", "servers", "basePath", "schemes"})
    ELSE /\ rwOut.basePath =
              (IF rwSpec.basePath.k = "string"
               THEN StringValue(makeServerURL(rwURL, rwSpec.basePath.s))
               ELSE rwSpec.basePath)
         /\ Untouched({"openapi", "swagger", "servers", "host", "schemes"})

\* a document with both markers, rewritten as OpenAPI 3.x
C3_Witness ==
  /\ rwDone /\ IsOpenAPI3(rwSpec)
  /\ rwSpec.openapi.s = <<"3", ".">>
  /\ rwSpec.swagger = StringValue(<<"2", ".", "0">>)
  /\ rwSpec.basePath.k = "string" /\ rwSpec.host.k = "absent"
  /\ rwOut.host.k = "absent" /\ rwOut.basePath = rwSpec.basePath
  /\ rwOut.servers.k = "array"

\* C4: a Swagger 2.0 document gets host set to the Host of the record's URL
\* (no scheme, no path); every other field is unchanged.
C4_SwaggerHost ==
  (rwDone /\ IsSwagger2(rwSpec)) =>
    rwOut = [rwSpec EXCEPT !.host = StringValue(rwURL.Host)]

C4_Witness ==
  /\ rwDone /\ IsSwagger2(rwSpec)
  /\ rwSpec.host = StringValue(<<"x">>)
  /\ rwSpec.basePath = StringValue(<<"/", "a">>)
  /\ rwURL.Path = <<"/", "b", "/", "c">>
  /\ rwOut.host = StringValue(<<"h">>)
  /\ rwOut.basePath = StringValue(<<"/", "a">>)

\* C5: a legacy/undefined document with a string basePath gets basePath
\* replaced by makeServerURL(base, basePath); one without a string basePath
\* is returned unchanged.
C5_LegacyBasePath ==
  (rwDone /\ ~IsOpenAPI3(rwSpec) /\ ~IsSwagger2(rwSpec)) =>
    IF rwSpec.basePath.k = "string"
    THEN rwOut = [rwSpec EXCEPT !.basePath =
                    StringValue(makeServerURL(rwURL, rwSpec.basePath.s))]
    ELSE rwOut = rwSpec

C5_Witness ==
  /\ rwDone /\ ~IsOpenAPI3(rwSpec) /\ ~IsSwagger2(rwSpec)
  /\ rwSpec.basePath = StringValue(<<"/", "a">>)
  /\ rwURL.Path = <<"/", "b">>
  /\ rwOut.basePath = StringValue(<<"h", "t", "t", "p", ":", "/", "/", "h", "/", "a">>)

\* a legacy document without basePath, returned as it came
C5_WitnessNoBasePath ==
  /\ rwDone /\ ~IsOpenAPI3(rwSpec) /\ ~IsSwagger2(rwSpec)
  /\ rwSpec.basePath.k = "absent" /\ rwSpec.openapi.k = "string"
  /\ rwOut = rwSpec


(***************************************************************************)
(* Claims about the registry (checked under Spec)                          *)
(***************************************************************************)
\* C9: when UpdateSpecs(batch) has installed its map and is about to return,
\* the keys of s.specs are exactly the names of the error-free candidates of
\* the batch (candidates with an error and names of the previous snapshot
\* are absent), each key maps to a record of that name, and for a name that
\* occurs several times the last error-free occurrence is stored.
C9_ReplaceInstallsErrorFree ==
  \A u \in Updaters :
    upc[u] = "unlock" =>
      /\ DOMAIN specs =
           {c.Name : c \in {apis[u][i] : i \in 1..Len(apis[u])} \
                            {c \in Candidates : c.Error # ""}}
      /\ \A n \in DOMAIN specs :
           /\ specs[n].Name = n
           /\ specs[n].URL = apis[u][LastErrorFree(apis[u], n)].URL

\* a batch whose last candidate for "a" carries an error, installed over a
\* snapshot that held "b"
C9_Witness ==
  \E u \in Updaters :
    /\ upc[u] = "unlock"
    /\ Len(apis[u]) = 2
    /\ apis[u][1].Name = "a" /\ apis[u][1].Error = "" /\ apis[u][1].URL = "u1"
    /\ apis[u][2].Name = "a" /\ apis[u][2].Error # ""
    /\ "b" \in DOMAIN lastReturned
    /\ DOMAIN specs = {"a"}
    /\ specs["a"].URL = "u1"

\* C10: under every interleaving of UpdateSpecs calls and requests, what a
\* request reads under the read lock (the whole map in serveSpecs, one entry
\* in serveIndividualSpec) is the complete mapping of one batch, that of the
\* UpdateSpecs call that returned last, or the initial empty mapping.
C10_ReadsSeeLastReturned ==
  \A r \in Requests :
    /\ rpc[r] = "encoded" => encoded[r] = lastReturned
    /\ rpc[r] = "found" =>
         /\ exists[r] <=> apiName[r] \in DOMAIN lastReturned
         /\ exists[r] => metadata[r] = lastReturned[apiName[r]]

\* two requests hold what they read of an installed batch while a writer
\* waits for them
C10_Witness ==
  /\ rpc["r1"] = "encoded" /\ rpc["r2"] = "found"
  /\ exists["r2"] /\ metadata["r2"].URL = "u2"
  /\ DOMAIN encoded["r1"] = {"a", "b"}
  /\ specsMux.writer # "none" /\ ~specsMux.held
  /\ specsMux.readers = {"r1", "r2"}


\* C11: every record UpdateSpecs stores is field-for-field equal to the
\* candidate it was built from (title, description, version and all other
\* fields as supplied).
C11_StoredEqualsCandidate ==
  \A u \in Updaters :
    upc[u] = "unlock" =>
      \A n \in DOMAIN specs : specs[n] = apis[u][LastErrorFree(apis[u], n)]

\* the fields UpdateSpecs does copy from the candidate
C11_CopiedFields ==
  \A u \in Updaters :
    upc[u] = "unlock" =>
      \A n \in DOMAIN specs :
        LET c == apis[u][LastErrorFree(apis[u], n)]
        IN /\ specs[n].Name = c.Name /\ specs[n].URL = c.URL
           /\ specs[n].ResourceType = c.ResourceType
           /\ specs[n].ResourceName = c.ResourceName
           /\ specs[n].Namespace = c.Namespace
           /\ specs[n].LastUpdated = c.LastUpdated
           /\ specs[n].AllowedMethods = c.AllowedMethods

(***************************************************************************)
(* Claims about request handling (checked under SpecHTTP)                  *)
(***************************************************************************)
\* the request is answered and was routed to this handler
Served(h) == pc = "done" /\ handler = h

\* the response body is this one, or nothing when the client's connection
\* broke before it was written
BodyIs(body) == httpResp.Body = IF httpResp.Broken THEN NoBody ELSE body

\* the API name of the inbound path, taken after the base path is stripped
RoutedName == TrimPrefix(stripBasePath(basePath, httpReq.Path), httpPath.API)

\* the fetch of serveIndividualSpec failed, in the sense of C12: a transport
\* error, a status outside 2xx, or a body that does not decode
FetchFailed(resp) ==
  \/ resp.err # ""
  \/ resp.StatusCode \notin 200..299
  \/ resp.decodeErr # ""

\* C12: for a registered name, whenever the fetch fails (network error or
\* upstream status outside 2xx) or the body does not decode, the response
\* has a 5xx status and holds no part of the document; a document is
\* returned only as the complete rewritten JSON object.
C12_FetchFailureIs5xx ==
  (Served("serveIndividualSpec") /\ loc.exists) =>
    /\ FetchFailed(loc.resp) =>
         /\ httpResp.Status \in 500..599
         /\ httpResp.Body.kind # "document"
    /\ httpResp.Body.kind = "document" =>
         /\ ~FetchFailed(loc.resp)
         /\ httpResp.Body.doc =
              updateSpecServerInfo(loc.resp.doc, RecordURLs[loc.metadata.URL])

\* the part of C12 the code satisfies: a failed fetch or decode never puts a
\* document into the response, and the status is 500 unless the upstream
\* answered with a status of its own, which is passed on
C12_NoPartialDocument ==
  (Served("serveIndividualSpec") /\ loc.exists) =>
    /\ FetchFailed(loc.resp) =>
         /\ httpResp.Body.kind # "document"
         /\ httpResp.Status =
              IF loc.resp.err = "" /\ loc.resp.StatusCode # StatusOK
              THEN loc.resp.StatusCode ELSE StatusInternalServerError
    /\ httpResp.Body.kind = "document" =>
         /\ ~FetchFailed(loc.resp)
         /\ httpResp.Body.doc =
              updateSpecServerInfo(loc.resp.doc, RecordURLs[loc.metadata.URL])

\* C13: for every failing request the text sent to the client is a fixed
\* generic message that does not depend on the internal cause: nothing of
\* the error, the upstream status or the request is formatted into it, so
\* that two failures of one kind have the same body.
C13_GenericClientMessage ==
  (pc = "done" /\ httpResp.Body.kind = "error") =>
    httpResp.Body.msg = Msg(httpResp.Body.msg.text)

\* the failures whose client text is a constant: unknown name, missing
\* proxyUrl, unreadable request body, missing file, unreadable index
C13_ConstantMessages ==
  (/\ pc = "done" /\ httpResp.Body.kind = "error"
   /\ httpResp.Body.msg.text \in
        {errMsg.APINotFound, errMsg.ProxyURLRequired,
         "Failed to read request body", errMsg.StaticFileNotFound,
         errMsg.FailedToReadIndexHTML}) =>
    httpResp.Body.msg = Msg(httpResp.Body.msg.text)

\* C14: a request to /api/{name} whose name is no key of the registry is
\* answered with 404 and the constant not-found message, and no outbound
\* fetch is made for it.
C14_UnknownNameNotFound ==
  (handler = "serveIndividualSpec" /\ KeyOf(RoutedName) \notin DOMAIN specs) =>
    /\ outbound = <<>>
    /\ pc # "http.Get"
    /\ pc = "done" =>
         /\ httpResp.Status = StatusNotFound
         /\ BodyIs(ErrorBody(Msg(errMsg.APINotFound)))

\* /api/c is answered from a registry that holds a and b
C14_Witness ==
  /\ Served("serveIndividualSpec")
  /\ httpReq.Path = httpPath.API \o <<"c">>
  /\ DOMAIN specs = {"a", "b"}
  /\ httpResp.Status = StatusNotFound
  /\ httpResp.Body = ErrorBody(Msg(errMsg.APINotFound))
  /\ outbound = <<>>

\* C15: routing happens on the inbound path with the base path stripped, and
\* the handler gets the same arguments as for the unprefixed path: a request
\* to B + "/api/" + n is served by serveIndividualSpec with name exactly n.
C15_BasePathStripped ==
  /\ handler # "" => handler = route(stripBasePath(basePath, httpReq.Path))
  /\ (handler = "serveIndividualSpec" /\ loc.read) => loc.apiName = RoutedName

\* the part of C15 the code satisfies: the handler is chosen on the stripped
\* path, serveStaticFiles works on the stripped path, and serveIndividualSpec
\* gets the name when the inbound path carries no base path
C15_HoldsWithoutPrefix ==
  /\ handler # "" => handler = route(stripBasePath(basePath, httpReq.Path))
  /\ Served("serveStaticFiles") =>
       loc.relativePath = stripBasePath(basePath, httpReq.Path)
  /\ (/\ handler = "serveIndividualSpec" /\ loc.read
      /\ stripBasePath(basePath, httpReq.Path) = httpReq.Path) =>
       loc.apiName = RoutedName

\* C16: a request routed to /proxy/ whose proxyUrl query parameter is missing
\* or empty is answered with 400 and the message that the parameter is
\* required, and no outbound request is dispatched.
C16_ProxyURLRequired ==
  (/\ handler = "proxyRequest"
   /\ (httpReq.Query = <<>> \/ httpReq.Query[1] = <<>>)) =>
    /\ outbound = <<>>
    /\ pc # "client.Do"
    /\ pc = "done" =>
         /\ httpResp.Status = StatusBadRequest
         /\ BodyIs(ErrorBody(Msg(errMsg.ProxyURLRequired)))

\* a POST with a body and an empty proxyUrl value is turned down
C16_Witness ==
  /\ Served("proxyRequest")
  /\ httpReq.Method = "POST"
  /\ httpReq.Query = << <<>> >>
  /\ httpReq.Content = <<"x", "y">>
  /\ httpResp.Status = StatusBadRequest
  /\ httpResp.Body = ErrorBody(Msg(errMsg.ProxyURLRequired))
  /\ outbound = <<>>

\* client.Do returned a response, which proxyRequest has relayed
Relayed == Served("proxyRequest") /\ outbound # <<>> /\ loc.resp.err = ""

\* s is t up to some length
IsPrefix(s, t) == Len(s) <= Len(t) /\ SubSeq(t, 1, Len(s)) = s

\* C17: for every successful proxy dispatch the response has the upstream
\* status code, every upstream response header with all of its values in
\* their order (after the value ServeHTTP has set for that name, if any),
\* and the upstream body byte for byte (what came of it, if reading it broke
\* off); the status is written before any body byte.
C17_ProxyRelaysResponse ==
  Relayed =>
    /\ httpResp.Status = loc.resp.StatusCode
    /\ \A n \in HeaderNames :
         httpResp.Sent[n] = corsHeaders(EmptyHeader)[n] \o loc.resp.Header[n]
    /\ ~loc.resp.copyErr =>
         BodyIs(IF loc.resp.Body = <<>> THEN NoBody
                ELSE BytesBody(loc.resp.Body))
    /\ IsPrefix(httpResp.Body.bytes, loc.resp.Body)
    /\ httpResp.Body.kind \in {"none", "bytes"}
    /\ httpResp.Log \in {<<"status">>, <<"status", "body">>}

\* an upstream 404 with two Set-Cookie values and a body is relayed
C17_Witness ==
  /\ Relayed
  /\ loc.resp.StatusCode = StatusNotFound
  /\ loc.resp.Header["Set-Cookie"] = <<"c1", "c2">>
  /\ httpResp.Status = StatusNotFound
  /\ httpResp.Sent["Set-Cookie"] = <<"c1", "c2">>
  /\ httpResp.Sent[header.ContentType] = <<contentType.JSON>>
  /\ httpResp.Body = BytesBody(<<"x", "y">>)
  /\ httpResp.Log = <<"status", "body">>

\* C18: the outbound proxy request has the method of the inbound request,
\* its body content and every inbound header with all of its values; after
\* the forward, reading the inbound body again yields the same bytes.
C18_ProxyForwardsRequest ==
  (handler = "proxyRequest" /\ outbound # <<>>) =>
    /\ Len(outbound) = 1
    /\ outbound[1].Method = httpReq.Method
    /\ outbound[1].URL = httpReq.Query[1]
    /\ outbound[1].Body = httpReq.Content
    /\ \A n \in HeaderNames : outbound[1].Header[n] = httpReq.Header[n]
    /\ httpReq.Body = httpReq.Content

\* a POST with a body and a header of two values has been forwarded and
\* answered
C18_Witness ==
  /\ Relayed
  /\ httpReq.Method = "POST"
  /\ httpReq.Content = <<"x", "y">>
  /\ httpReq.Header["Set-Cookie"] = <<"c1", "c2">>
  /\ outbound[1].Method = "POST"
  /\ outbound[1].Header["Set-Cookie"] = <<"c1", "c2">>
  /\ outbound[1].Body = <<"x", "y">>
  /\ httpReq.Body = <<"x", "y">>

\* C19: every response on every route carries the CORS headers:
\* Access-Control-Allow-Origin is "*", and the allowed methods and headers
\* are the fixed lists, whatever the upstream or the handler adds.
C19_CORSOnEveryResponse ==
  pc = "done" =>
    /\ httpResp.Sent[header.AccessControlAllowOrigin] = <<cors.AllowOriginAll>>
    /\ httpResp.Sent[header.AccessControlAllowMethods] =
         <<cors.AllowMethodsDefault>>
    /\ httpResp.Sent[header.AccessControlAllowHeaders] =
         <<cors.AllowHeadersDefault>>

\* the part of C19 the code satisfies: the first value of each CORS header
\* is the fixed one on every response, and it is the only one unless a
\* proxied upstream sent that header itself
C19_CORSFirstValue ==
  pc = "done" =>
    \A n \in {header.AccessControlAllowOrigin, header.AccessControlAllowMethods,
              header.AccessControlAllowHeaders,
              header.AccessControlExposeHeaders} :
      /\ httpResp.Sent[n] # <<>>
      /\ httpResp.Sent[n][1] = corsHeaders(EmptyHeader)[n][1]
      /\ ~(Relayed /\ loc.resp.Header[n] # <<>>) => Len(httpResp.Sent[n]) = 1

\* C20: an OPTIONS request to any path is answered with status 200 and an
\* empty body, and no route handler runs for it: no registry read, no
\* outbound fetch, no proxy dispatch.
C20_OptionsShortCircuit ==
  httpReq.Method = MethodOptions =>
    /\ pc \in {"ServeHTTP", "done"}
    /\ handler = ""
    /\ ~loc.read
    /\ outbound = <<>>
    /\ pc = "done" => (httpResp.Status = StatusOK /\ httpResp.Body = NoBody)

\* OPTIONS on a proxy path with a target and a body is answered at once
C20_Witness ==
  /\ pc = "done"
  /\ httpReq.Method = MethodOptions
  /\ HasPrefix(httpReq.Path, httpPath.Proxy)
  /\ httpReq.Query = << <<"a", ":", "/", "/", "a">> >>
  /\ httpReq.Content = <<"x", "y">>
  /\ DOMAIN specs = {"a", "b"}
  /\ httpResp.Status = StatusOK
  /\ httpResp.Body = NoBody
  /\ httpResp.Sent[header.AccessControlAllowMethods] =
       <<cors.AllowMethodsDefault>>
  /\ outbound = <<>>

(***************************************************************************)
(* Claims about the watcher (checked under SpecWatch)                      *)
(***************************************************************************)
\* C21: a poll cycle that fails or yields an empty list does not call
\* UpdateSpecs: from such a load to the next one no step changes s.specs or
\* starts a call, and a call of UpdateSpecs always has a non-empty list.
C21_EmptyPollKeepsSnapshot ==
  [][/\ loaded = <<>> => (specs' = specs /\ upc' = upc /\ apis' = apis)
     /\ \A u \in Updaters : upc'[u] # "idle" => apis'[u] # <<>>]_vars

\* the watcher sleeps after a poll that gave nothing, and the snapshot of an
\* earlier poll is still installed
C21_Witness ==
  /\ wpc = "sleep"
  /\ loaded = <<>>
  /\ upc[Watcher] = "idle"
  /\ DOMAIN specs = {"a", "b"}
  /\ specs = lastReturned

(***************************************************************************)
(* Claims about pending outbound calls (checked under SpecServe and Spec)  *)
(***************************************************************************)
\* C22: the registry lock is never held across an outbound call: a request
\* that has issued (or is about to issue) its spec fetch or its proxy
\* dispatch holds no read lock, and, with any number of such calls pending
\* for ever, every UpdateSpecs call returns and every request that reads the
\* registry leaves the lock.
C22_PendingCallsBlockNothing ==
  /\ [](\A r \in Requests :
         rpc[r] \in {"unlocked", "fetch", "respond", "dispatch"}
           => r \notin specsMux.readers)
  /\ (upc[Watcher] # "idle") ~> (upc[Watcher] = "idle")
  /\ \A r \in Requests :
       (r \in specsMux.readers) ~> (r \notin specsMux.readers)

\* a fetch and a dispatch are pending, and an UpdateSpecs call that began
\* after the lookup of the fetching request has returned with a different
\* record for the name
C22_Witness ==
  /\ rpc["r1"] = "fetch"
  /\ rpc["r2"] = "dispatch"
  /\ \A u \in Updaters : upc[u] = "idle"
  /\ apiName["r1"] \in DOMAIN specs
  /\ specs[apiName["r1"]].URL # metadata["r1"].URL

\* C23: if the inbound caller disconnects while the outbound spec fetch or
\* proxy dispatch is pending, the handler eventually stops waiting on it,
\* even if the upstream never responds.
C23_DisconnectAbandonsCall ==
  (httpReq.Cancelled /\ pc \in {"http.Get", "client.Do"}) ~> (pc = "done")

\* C24: each /api/{name} request works on the one record it copied under
\* the read lock: the URL given to http.Get and the URL parsed as the base
\* of the rewriting are both the URL of that copy, whatever UpdateSpecs
\* calls have changed or removed the record of the name since the lookup.
C24_OneRecordPerRequest ==
  \A r \in Requests :
    /\ rpc[r] \in {"fetch", "respond"} => urlStr[r] = metadata[r].URL
    /\ rpc[r] = "respond" =>
         /\ metadataURL[r] = urlStr[r]
         /\ metadataURL[r] = metadata[r].URL

\* two requests for "a" got different records of it (an UpdateSpecs call
\* changed the record between their lookups), both have fetched and parsed
\* their own URL, and by now a later call has removed "a"
C24_Witness ==
  /\ rpc["r1"] = "respond"
  /\ rpc["r2"] = "respond"
  /\ apiName["r1"] = "a"
  /\ apiName["r2"] = "a"
  /\ metadataURL["r1"] = "u1"
  /\ metadataURL["r2"] = "u2"
  /\ "a" \notin DOMAIN specs

=============================================================================
